---- MODULE Spec2Model ----
(***************************************************************************)
(* Moderation workflow of the leblango backend: the LibrarySubmission and  *)
(* LibraryItem tables and the three routed request handlers that write     *)
(* them: LibrarySubmit (views_library.py), ApproveSubmission and           *)
(* RejectSubmission (views_library_admin.py, the classes urls.py routes).  *)
(*                                                                         *)
(* Every request runs in its own worker on its own database connection.   *)
(* settings.py sets no ATOMIC_REQUESTS and no view opens a transaction, so *)
(* each ORM call (get, create, save) is one autocommitted statement and    *)
(* the statements of different requests interleave freely.  A request      *)
(* keeps the row it read in a local copy (the model instance) and tests    *)
(* the status on that copy.                                                *)
(*                                                                         *)
(* ApproveSubmission.post builds the item from submission.category and     *)
(* submission.user.  LibrarySubmission defines neither (its user column is *)
(* submitted_by), so evaluating the arguments of LibraryItem.objects.create*)
(* raises AttributeError and custom_exception_handler answers 500; the     *)
(* INSERT and the UPDATE that follow are modelled as the code has them but *)
(* are reached only when the row has those attributes.                     *)
(*                                                                         *)
(* Besides the moderation workflow (Spec) the module has the handlers that *)
(* answer in one statement: LibrarySubmit and LibraryTrack (IntakeSpec),   *)
(* LibrarySearch and PublicDictionarySearch with its SearchQueryLog row    *)
(* (SearchSpec), the limit / offset parsing of the search views and of     *)
(* utils.paginate_queryset (PagingSpec), and library searches interleaved  *)
(* with moderation (PublishSpec).  `last` holds the request and response   *)
(* of the most recent such call.                                           *)
(*                                                                         *)
(* Further specifications: the three role classes of permissions.py        *)
(* (PermSpec), the import views with the ImportJob table `jobs`            *)
(* (ImportSpec), QueryHealthSummary with the `cache` it reads and writes   *)
(* (HealthSpec), and events with the deletion of their items (EventSpec).  *)
(***************************************************************************)
EXTENDS Integers, Sequences, FiniteSets, TLC

VARIABLES submissions, items, reqs, clock, entries, logs, events, last,
          jobs, cache

vars == <<submissions, items, reqs, clock, entries, logs, events, last,
          jobs, cache>>

\* The tables and the exchange record the moderation handlers never touch:
\* DictionaryEntry, SearchQueryLog, LibraryEvent, and the request and
\* response of the last search, submit or track call, the ImportJob table
\* and the cache.
api == <<entries, logs, events, last, jobs, cache>>

\* What only the import views and the query-health view write.
imports == <<jobs, cache>>

(***************************** bounds **************************************)
MaxSubs == 1      \* submit requests accepted in one run
MaxReq == 2       \* approve / reject requests in one run

(***************************** values **************************************)
NULL == "NULL"            \* a null foreign key to a user or a category
NoId == 0                 \* a null foreign key to a row; ids are >= 1
NoTime == 0               \* a null DateTimeField; timestamps are >= 1

STATUS_PENDING == "pending"
STATUS_APPROVED == "approved"
STATUS_REJECTED == "rejected"

\* Text is a tuple of characters; " " is whitespace.
Whitespace == {" "}
EmptyText == << >>

\* A JSON body value under one key: absent, a string, or a truthy
\* non-string (a number, a list).
Absent == [kind |-> "absent", text |-> EmptyText]
Str(t) == [kind |-> "str", text |-> t]
NonStr == [kind |-> "other", text |-> EmptyText]

\* str.strip(): drop leading and trailing whitespace.
RECURSIVE LStrip(_)
LStrip(t) == IF t # << >> /\ Head(t) \in Whitespace THEN LStrip(Tail(t)) ELSE t

RECURSIVE RStrip(_)
RStrip(t) ==
    IF t # << >> /\ t[Len(t)] \in Whitespace
    THEN RStrip(SubSeq(t, 1, Len(t) - 1))
    ELSE t

Strip(t) == RStrip(LStrip(t))

\* `request.data.get(key) or ""`: None and "" give "", anything else itself.
OrEmpty(v) == IF v.kind = "str" THEN v ELSE IF v.kind = "absent" THEN Str(EmptyText) ELSE v

(***************************** users ***************************************)
\* The callers: no credentials, a plain account, a member of the editor
\* group, a member of the manager group, and a staff account.
Users == {"anon", "regular", "editor", "manager", "staff"}

\* Accounts are named after what they have: "root" is_superuser, "staff"
\* is_staff, "manager" and "editor" membership of that group; "regular" is
\* an account with none of them and "anon" the AnonymousUser of a request
\* without credentials.
SuperAccounts ==
    {"root", "root_staff", "root_manager", "root_editor",
     "root_staff_manager", "root_staff_editor", "root_manager_editor",
     "root_staff_manager_editor"}
StaffAccounts ==
    {"staff", "root_staff", "staff_manager", "staff_editor",
     "root_staff_manager", "root_staff_editor", "staff_manager_editor",
     "root_staff_manager_editor"}
ManagerAccounts ==
    {"manager", "root_manager", "staff_manager", "manager_editor",
     "root_staff_manager", "root_manager_editor", "staff_manager_editor",
     "root_staff_manager_editor"}
EditorAccounts ==
    {"editor", "root_editor", "staff_editor", "manager_editor",
     "root_staff_editor", "root_manager_editor", "staff_manager_editor",
     "root_staff_manager_editor"}
Accounts ==
    {"anon", "regular"} \cup SuperAccounts \cup StaffAccounts
        \cup ManagerAccounts \cup EditorAccounts

is_authenticated(u) == u # "anon"
is_staff(u) == u \in StaffAccounts
is_superuser(u) == u \in SuperAccounts
MANAGER_GROUP == "manager"
EDITOR_GROUP == "editor"
groups(u) ==
    (IF u \in ManagerAccounts THEN {MANAGER_GROUP} ELSE {})
        \cup (IF u \in EditorAccounts THEN {EDITOR_GROUP} ELSE {})

_in_group(u, g) == is_authenticated(u) /\ g \in groups(u)

IsAuthenticated(u) == is_authenticated(u)

IsManagerOrAdmin(u) ==
    IF ~is_authenticated(u) THEN FALSE
    ELSE IF is_superuser(u) \/ is_staff(u) THEN TRUE
    ELSE _in_group(u, MANAGER_GROUP)

\* IsModeratorOrAdmin without its editor-group test.
IsModeratorOrAdmin_NoEditor(u) ==
    IF ~is_authenticated(u) THEN FALSE
    ELSE IF is_superuser(u) \/ is_staff(u) THEN TRUE
    ELSE _in_group(u, MANAGER_GROUP)

\* permissions.py IsModeratorOrAdmin: authenticated and superuser, staff, or
\* a member of the manager or the editor group.
IsModeratorOrAdmin(u) ==
    IF ~is_authenticated(u) THEN FALSE
    ELSE IF is_superuser(u) \/ is_staff(u) THEN TRUE
    ELSE _in_group(u, MANAGER_GROUP) \/ _in_group(u, EDITOR_GROUP)

IsStaffUser(u) == is_authenticated(u) /\ is_staff(u)

\* A view's permission gate: 0 when admitted, else the status of the failure
\* (JWT authentication sends WWW-Authenticate, so no credentials give 401).
Gate(allowed, u) == IF allowed THEN 0 ELSE IF is_authenticated(u) THEN 403 ELSE 401

(***************************** tables **************************************)
\* Variant: a LibrarySubmission model that also has the `category` and
\* `user` columns the approve view reads.
NewSubmission_WithCategoryAndUser(u, title, description, url) ==
    [title |-> title, description |-> description, url |-> url,
     submitted_by |-> u, status |-> STATUS_PENDING,
     rejection_reason |-> EmptyText, reviewed_by |-> NULL,
     reviewed_at |-> NoTime, category |-> NULL, user |-> u]

\* LibrarySubmission.objects.create(submitted_by, title, description, url):
\* the row with the model's defaults.  The model has exactly these columns;
\* it has no `category` and no `user`.
NewSubmission(u, title, description, url) ==
    [title |-> title, description |-> description, url |-> url,
     submitted_by |-> u, status |-> STATUS_PENDING,
     rejection_reason |-> EmptyText, reviewed_by |-> NULL,
     reviewed_at |-> NoTime]

\* getattr on a model instance: an attribute exists iff the model defines it.
HasAttr(row, name) == name \in DOMAIN row
Attr(row, name) == IF HasAttr(row, name) THEN row[name] ELSE NULL

\* A LibraryItem row.
NewItem(title, description, url, category, published, by, source) ==
    [title |-> title, description |-> description, url |-> url,
     category |-> category, is_published |-> published,
     submitted_by |-> by, source_submission |-> source]

\* source_submission is a OneToOneField: the column is UNIQUE (nulls apart).
SourceTaken(tbl, source) ==
    source # NoId /\ \E i \in 1..Len(tbl) : tbl[i].source_submission = source

\* The attributes of the submission that ApproveSubmission.post reads to
\* build the item, in evaluation order.
ApproveReads == <<"title", "description", "url", "category", "user">>

\* Variant: a create that always inserts (no attribute is missed and the
\* source column is not unique).
CreateOutcome_Unchecked(row, pk, tbl) == "created"

\* What LibraryItem.objects.create(...) of ApproveSubmission.post does for
\* the local copy `row` of submission pk against the item table `tbl`.
CreateOutcome(row, pk, tbl) ==
    IF \E k \in 1..Len(ApproveReads) : ~HasAttr(row, ApproveReads[k])
    THEN "AttributeError"
    ELSE IF SourceTaken(tbl, pk) THEN "IntegrityError"
    ELSE "created"

\* custom_exception_handler: the response for an exception a view lets out.
ExceptionStatus(exc) ==
    CASE exc = "IntegrityError" -> 400
      [] exc = "ValidationError" -> 400
      [] exc = "Http404" -> 404
      [] OTHER -> 500

(***************************** requests ************************************)
NoRow == [status |-> "none"]

\* A request slot: the handler's inputs as far as it has read them (pk once
\* the view's post runs, body once the reason is read), its local copy of
\* the row, its response, and the requests answered before it arrived.
IdleReq ==
    [op |-> "none", pc |-> "idle", user |-> "anon", pk |-> NoId, body |-> Absent,
     sub |-> NoRow, item_id |-> NoId, status |-> 0, detail |-> << >>, after |-> {}]

Finished == {r \in 1..MaxReq : reqs[r].pc = "done"}

\* Request slots are taken in order.
CanStart(r) ==
    /\ reqs[r].pc = "idle"
    /\ \A q \in 1..(r - 1) : reqs[q].pc # "idle"

\* The detail texts of the moderation responses, a tuple of words each.
DeniedDetail == <<"denied">>
NotFoundDetail == <<"Submission", "not", "found", ".">>
AlreadyReviewedDetail == <<"Submission", "already", "reviewed", ".">>

Respond(req, code, detail) == [req EXCEPT !.pc = "done", !.status = code, !.detail = detail]

\* An item an administrator published directly: it has no source submission.
DirectItem == NewItem(<<"a">>, EmptyText, EmptyText, NULL, TRUE, NULL, NoId)

\* No search, submit or track call has been recorded.
NoExchange == [op |-> "none"]

Init ==
    /\ submissions = << >>
    /\ items = <<DirectItem>>
    /\ reqs = [r \in 1..MaxReq |-> IdleReq]
    /\ clock = 1
    /\ entries = << >>
    /\ logs = << >>
    /\ events = << >>
    /\ jobs = << >>
    /\ cache = {}
    /\ last = NoExchange

(***************************** LibrarySubmit *******************************)
\* The request bodies tried: title, description, url.
SubmitBodies ==
    {<<Absent, Str(<<"d">>), Absent>>,
     <<NonStr, Absent, Absent>>,
     <<Str(<<" ">>), Absent, Absent>>,
     <<Str(<<"a">>), Absent, Absent>>,
     <<Str(<<" ", "b">>), Str(<<"d">>), Str(<<"u">>)>>}
Submitters == {"anon", "regular"}

\* Variant: a submit that accepts a blank title.
SubmitStatus_NoBlankCheck(u, title) ==
    IF Gate(IsAuthenticated(u), u) # 0 THEN Gate(IsAuthenticated(u), u)
    ELSE IF OrEmpty(title).kind # "str" THEN ExceptionStatus("AttributeError")
    ELSE 201

\* The response of LibrarySubmit.post: 401 without credentials, 500 when
\* .strip() meets a non-string title, 400 for a blank title, else 201.
SubmitStatus(u, title) ==
    IF Gate(IsAuthenticated(u), u) # 0 THEN Gate(IsAuthenticated(u), u)
    ELSE IF OrEmpty(title).kind # "str" THEN ExceptionStatus("AttributeError")
    ELSE IF Strip(OrEmpty(title).text) = EmptyText THEN 400
    ELSE 201

\* The request and the response of a submit call.
SubmitExchange(u, title) ==
    [op |-> "submit", user |-> u, title |-> title, status |-> SubmitStatus(u, title)]

\* The handler's effect on the tables; what `last` records of the call is
\* fixed where the action is used.
LibrarySubmit_post(u, title, description, url) ==
    /\ Len(submissions) < MaxSubs
    /\ UNCHANGED <<items, reqs, clock, entries, logs, events, imports>>
    /\ IF SubmitStatus(u, title) # 201
       THEN UNCHANGED submissions
       ELSE submissions' = Append(submissions,
                NewSubmission(u, Strip(OrEmpty(title).text),
                              OrEmpty(description).text, OrEmpty(url).text))

(***************************** ApproveSubmission ***************************)
\* Variant: a save that leaves reviewed_at out of update_fields.
SaveReview_NoReviewedAt(tbl, pk, st, by, at, reason) ==
    [tbl EXCEPT ![pk] = [@ EXCEPT !.status = st, !.reviewed_by = by,
                                  !.rejection_reason = reason]]

\* Variant: a save that leaves status out of update_fields.
SaveReview_NoStatus(tbl, pk, st, by, at, reason) ==
    [tbl EXCEPT ![pk] = [@ EXCEPT !.reviewed_by = by, !.reviewed_at = at,
                                  !.rejection_reason = reason]]

\* The review a handler writes back: save(update_fields=[status,
\* reviewed_by, reviewed_at, rejection_reason]) is one UPDATE of these four
\* columns of row pk, whatever the row holds by then.
SaveReview(tbl, pk, st, by, at, reason) ==
    [tbl EXCEPT ![pk] = [@ EXCEPT !.status = st, !.reviewed_by = by,
                                  !.reviewed_at = at, !.rejection_reason = reason]]

\* Permission check, LibrarySubmission.objects.get(pk=pk) and the status
\* test on the row just read.
ApproveSubmission_post_get(r, u, pk) ==
    /\ CanStart(r)
    /\ UNCHANGED <<submissions, items, clock, api>>
    /\ LET den == [reqs[r] EXCEPT !.op = "approve", !.user = u, !.after = Finished]
           req == [den EXCEPT !.pk = pk]
       IN  reqs' = [reqs EXCEPT ![r] =
             IF Gate(IsManagerOrAdmin(u), u) # 0
             THEN Respond(den, Gate(IsManagerOrAdmin(u), u), DeniedDetail)
             ELSE IF pk \notin DOMAIN submissions
             THEN Respond(req, 404, NotFoundDetail)
             ELSE IF submissions[pk].status # STATUS_PENDING
             THEN Respond(req, 400, AlreadyReviewedDetail)
             ELSE [req EXCEPT !.pc = "got", !.sub = submissions[pk]]]

\* The writes of the handler, one statement a step: the INSERT of the item
\* (pc "got"), then the UPDATE of the submission (pc "created").
ApproveSubmission_post_write(r) ==
    /\ reqs[r].op = "approve"
    /\ reqs[r].pc \in {"got", "created"}
    /\ UNCHANGED api
    /\ LET req == reqs[r]
           out == CreateOutcome(req.sub, req.pk, items)
       IN  IF req.pc = "got"
           THEN IF out # "created"
                THEN /\ reqs' = [reqs EXCEPT ![r] = Respond(req, ExceptionStatus(out), <<out>>)]
                     /\ UNCHANGED <<submissions, items, clock>>
                ELSE /\ items' = Append(items,
                            NewItem(req.sub.title, req.sub.description, req.sub.url,
                                    Attr(req.sub, "category"), TRUE,
                                    Attr(req.sub, "user"), req.pk))
                     /\ reqs' = [reqs EXCEPT ![r] =
                            [req EXCEPT !.pc = "created", !.item_id = Len(items) + 1]]
                     /\ UNCHANGED <<submissions, clock>>
           ELSE /\ submissions' = SaveReview(submissions, req.pk, STATUS_APPROVED,
                                             req.user, clock, EmptyText)
                /\ clock' = clock + 1
                /\ reqs' = [reqs EXCEPT ![r] = Respond(req, 200, <<"Submission", "approved", ".">>)]
                /\ UNCHANGED items

(***************************** RejectSubmission ****************************)
ReasonInputs == {Absent, NonStr, Str(<<" ", "x">>)}

\* Permission check, the get, the status test and the evaluation of
\* (request.data.get("reason") or "").strip().
RejectSubmission_post_get(r, u, pk, body) ==
    /\ CanStart(r)
    /\ UNCHANGED <<submissions, items, clock, api>>
    /\ LET den == [reqs[r] EXCEPT !.op = "reject", !.user = u, !.after = Finished]
           req == [den EXCEPT !.pk = pk]
       IN  reqs' = [reqs EXCEPT ![r] =
             IF Gate(IsManagerOrAdmin(u), u) # 0
             THEN Respond(den, Gate(IsManagerOrAdmin(u), u), DeniedDetail)
             ELSE IF pk \notin DOMAIN submissions
             THEN Respond(req, 404, NotFoundDetail)
             ELSE IF submissions[pk].status # STATUS_PENDING
             THEN Respond(req, 400, AlreadyReviewedDetail)
             ELSE IF OrEmpty(body).kind # "str"
             THEN Respond(req, ExceptionStatus("AttributeError"), <<"AttributeError">>)
             ELSE [req EXCEPT !.pc = "got", !.sub = submissions[pk], !.body = body]]

\* Variant: the reason stored as sent, without .strip().
RejectReason_Unstripped(body) == OrEmpty(body).text

\* The reason the handler stores.
RejectReason(body) == Strip(OrEmpty(body).text)

\* Variant: a reject that also publishes the submission as an item.
RejectSubmission_post_save_Publishes(r) ==
    /\ reqs[r].op = "reject"
    /\ reqs[r].pc = "got"
    /\ UNCHANGED api
    /\ items' = Append(items,
            NewItem(reqs[r].sub.title, reqs[r].sub.description, reqs[r].sub.url,
                    NULL, TRUE, reqs[r].sub.submitted_by, NoId))
    /\ submissions' = [submissions EXCEPT ![reqs[r].pk] =
            [@ EXCEPT !.status = STATUS_REJECTED, !.reviewed_by = reqs[r].user,
                      !.reviewed_at = clock, !.rejection_reason = EmptyText]]
    /\ clock' = clock + 1
    /\ reqs' = [reqs EXCEPT ![r] = Respond(reqs[r], 200, <<"Submission", "rejected", ".">>)]

\* The UPDATE of the submission and the response.
RejectSubmission_post_save(r) ==
    /\ reqs[r].op = "reject"
    /\ reqs[r].pc = "got"
    /\ UNCHANGED api
    /\ UNCHANGED items
    /\ submissions' = SaveReview(submissions, reqs[r].pk, STATUS_REJECTED,
                                 reqs[r].user, clock, RejectReason(reqs[r].body))
    /\ clock' = clock + 1
    /\ reqs' = [reqs EXCEPT ![r] = Respond(reqs[r], 200, <<"Submission", "rejected", ".">>)]

(***************************** specification *******************************)
\* Ids a request may name: every row there can be, and one that never exists.
Pks == 1..(MaxSubs + 1)

Next ==
    \/ \E u \in Submitters, b \in SubmitBodies :
          LibrarySubmit_post(u, b[1], b[2], b[3]) /\ UNCHANGED last
    \/ \E r \in 1..MaxReq, u \in Users, pk \in Pks : ApproveSubmission_post_get(r, u, pk)
    \/ \E r \in 1..MaxReq : ApproveSubmission_post_write(r)
    \/ \E r \in 1..MaxReq, u \in Users, pk \in Pks, b \in ReasonInputs :
          RejectSubmission_post_get(r, u, pk, b)
    \/ \E r \in 1..MaxReq : RejectSubmission_post_save(r)

Spec == Init /\ [][Next]_vars

(***************************** numbers *************************************)
\* A JSON number under a key: an integer, or a float whole.frac (>= 0).
JInt(n) == [kind |-> "int", num |-> n]
JFloat(whole, frac) == [kind |-> "float", whole |-> whole, frac |-> frac]

Digits == <<"0", "1", "2", "3", "4", "5", "6", "7", "8", "9">>
IsDigit(c) == \E d \in 1..10 : Digits[d] = c
DigitVal(c) == (CHOOSE d \in 1..10 : Digits[d] = c) - 1

RECURSIVE DigitsValue(_)
DigitsValue(t) ==
    IF t = << >> THEN 0
    ELSE DigitsValue(SubSeq(t, 1, Len(t) - 1)) * 10 + DigitVal(t[Len(t)])

\* The outcomes of a conversion: a value, or the exception raised.
Value(n) == [ok |-> TRUE, val |-> n, exc |-> "none"]
Raise(exc) == [ok |-> FALSE, val |-> 0, exc |-> exc]

\* int(s) of a str: surrounding whitespace dropped, an optional sign, then
\* one or more decimal digits; anything else raises ValueError.
IntOfText(t) ==
    LET s == Strip(t)
        signed == s # << >> /\ Head(s) \in {"-", "+"}
        body == IF signed THEN Tail(s) ELSE s
    IN  IF body = << >> \/ \E i \in 1..Len(body) : ~IsDigit(body[i])
        THEN Raise("ValueError")
        ELSE IF signed /\ Head(s) = "-" THEN Value(0 - DigitsValue(body))
        ELSE Value(DigitsValue(body))

\* int(x) of a JSON value: None and containers raise TypeError, a float is
\* truncated, a str is parsed.
PyInt(v) ==
    CASE v.kind = "int" -> Value(v.num)
      [] v.kind = "float" -> Value(v.whole)
      [] v.kind = "str" -> IntOfText(v.text)
      [] OTHER -> Raise("TypeError")

(***************************** LibraryTrack ********************************)
MaxEvents == 1    \* track requests that create an event in one run

EVENT_VIEW == <<"v", "i", "e", "w">>
EVENT_DOWNLOAD == <<"d", "o", "w", "n", "l", "o", "a", "d">>
EVENT_COMPLETE == <<"c", "o", "m", "p", "l", "e", "t", "e">>
EVENT_TYPES == {EVENT_VIEW, EVENT_DOWNLOAD, EVENT_COMPLETE}

\* A LibraryEvent row.
NewEvent(u, item, event_type) == [user |-> u, item |-> item, event_type |-> event_type]

\* LibraryItem.objects.get(id=id, is_published=True) finds a row.
PublishedItem(tbl, id) == id \in 1..Len(tbl) /\ tbl[id].is_published

\* try: item_id = int(item_id)
TrackItemId(v) == PyInt(v)

\* The response of LibraryTrack.post, its checks in the handler's order.
TrackStatus(u, item_id, event_type, tbl) ==
    IF Gate(IsAuthenticated(u), u) # 0 THEN Gate(IsAuthenticated(u), u)
    ELSE IF ~(event_type.kind = "str" /\ event_type.text \in EVENT_TYPES) THEN 400
    ELSE IF ~TrackItemId(item_id).ok THEN 400
    ELSE IF ~PublishedItem(tbl, TrackItemId(item_id).val) THEN 404
    ELSE 201

LibraryTrack_post(u, item_id, event_type) ==
    /\ UNCHANGED <<submissions, items, reqs, clock, entries, logs, imports>>
    /\ LET st == TrackStatus(u, item_id, event_type, items)
       IN  /\ events' = IF st = 201
                        THEN Append(events, NewEvent(u, TrackItemId(item_id).val,
                                                     event_type.text))
                        ELSE events
           /\ last' = [op |-> "track", user |-> u, item_id |-> item_id,
                       event_type |-> event_type, status |-> st]

(***************************** intake specification ************************)
\* An item an administrator saved without publishing it.
DraftItem == NewItem(<<"b">>, EmptyText, EmptyText, NULL, FALSE, NULL, NoId)

\* The item_id and event_type values tried: item 1 is published, item 2 is
\* not, item 3 does not exist.
TrackItemIds ==
    {Absent, NonStr, JInt(1), JInt(2), JInt(3), JFloat(1, 5),
     Str(<<"1">>), Str(<<"x">>)}
TrackTypes ==
    {Absent, Str(EVENT_VIEW), Str(EVENT_DOWNLOAD), Str(EVENT_COMPLETE), Str(<<"x">>)}

IntakeInit ==
    /\ submissions = << >>
    /\ items = <<DirectItem, DraftItem>>
    /\ reqs = [r \in 1..MaxReq |-> IdleReq]
    /\ clock = 1
    /\ entries = << >>
    /\ logs = << >>
    /\ events = << >>
    /\ jobs = << >>
    /\ cache = {}
    /\ last = NoExchange

IntakeNext ==
    \/ \E u \in Submitters, b \in SubmitBodies :
          LibrarySubmit_post(u, b[1], b[2], b[3]) /\ last' = SubmitExchange(u, b[1])
    \/ \E u \in Submitters, i \in TrackItemIds, t \in TrackTypes :
          Len(events) < MaxEvents /\ LibraryTrack_post(u, i, t)

IntakeSpec == IntakeInit /\ [][IntakeNext]_vars

(***************************** text matching *******************************)
\* str.lower() / SQL LOWER over the letters that occur.
LowerChar(c) ==
    CASE c = "A" -> "a"
      [] c = "B" -> "b"
      [] c = "T" -> "t"
      [] OTHER -> c
Lower(t) == [i \in 1..Len(t) |-> LowerChar(t[i])]

\* q occurs in t.
Contains(t, q) == \E i \in 0..(Len(t) - Len(q)) : SubSeq(t, i + 1, i + Len(q)) = q

\* field__icontains=q
IContains(t, q) == Contains(Lower(t), Lower(q))

\* (request.GET.get(key) or "").strip()
QueryText(v) == Strip(OrEmpty(v).text)

Min(a, b) == IF a < b THEN a ELSE b
Max(a, b) == IF a > b THEN a ELSE b

(***************************** pagination **********************************)
\* int(request.GET.get(key, default)): the default when the key is absent.
ParsedParam(v, default) == IF v.kind = "absent" THEN Value(default) ELSE IntOfText(v.text)

\* The conversion raises an exception the surrounding try does not catch.
Uncaught(v, default, caught) ==
    ~ParsedParam(v, default).ok /\ ParsedParam(v, default).exc \notin caught

\* Variant: a limit with no upper clamp.
PageLimit_Unclamped(v) ==
    Max(1, IF ParsedParam(v, 20).ok THEN ParsedParam(v, 20).val ELSE 20)

\* limit = int(request.GET.get("limit", 20)), 20 on ValueError, then
\* max(1, min(limit, 100)): the search views.
PageLimit(v) ==
    Max(1, Min(IF ParsedParam(v, 20).ok THEN ParsedParam(v, 20).val ELSE 20, 100))

\* offset = int(request.GET.get("offset", 0)), 0 on ValueError, then
\* max(0, offset).
PageOffset(v) ==
    Max(0, IF ParsedParam(v, 0).ok THEN ParsedParam(v, 0).val ELSE 0)

\* utils.paginate_queryset: the clamp is inside the try, the fallback is
\* default_limit itself.
PaginateLimit(v, default_limit) ==
    IF ParsedParam(v, default_limit).ok
    THEN Max(1, Min(ParsedParam(v, default_limit).val, 100))
    ELSE default_limit

PaginateOffset(v) ==
    IF ParsedParam(v, 0).ok THEN Max(0, ParsedParam(v, 0).val) ELSE 0

\* Variant: a slice that starts at the first row whatever the offset.
Page_FromStart(rows, offset, limit) == SubSeq(rows, 1, Min(limit, Len(rows)))

\* queryset[offset : offset + limit]
Page(rows, offset, limit) == SubSeq(rows, offset + 1, Min(offset + limit, Len(rows)))

\* The arrangements of the ids S in which no id comes after one it must
\* precede (before holds the pairs <<a, b>> with a ahead of b); where the
\* order leaves two rows tied the database may return them either way.
RECURSIVE Orderings(_, _)
Orderings(S, before) ==
    IF S = {} THEN {<< >>}
    ELSE UNION {{<<m>> \o rest : rest \in Orderings(S \ {m}, before)} :
                  m \in {x \in S : \A y \in S : <<y, x>> \notin before}}

(***************************** LibrarySearch *******************************)
\* LibraryCategory rows are named by their key; the slug of category c.
CategorySlug(c) == <<c>>

\* Variant: a search that also sees unpublished items.
LibraryMatches_Unpublished(tbl, q, category) ==
    {i \in 1..Len(tbl) :
        /\ q # EmptyText => (IContains(tbl[i].title, q) \/ IContains(tbl[i].description, q))
        /\ category # EmptyText
           => (tbl[i].category # NULL /\ CategorySlug(tbl[i].category) = category)}

\* The queryset of LibrarySearch.get: published, q in title or description
\* when q is given, category slug when category is given.
LibraryMatches(tbl, q, category) ==
    {i \in 1..Len(tbl) :
        /\ tbl[i].is_published
        /\ q # EmptyText => (IContains(tbl[i].title, q) \/ IContains(tbl[i].description, q))
        /\ category # EmptyText
           => (tbl[i].category # NULL /\ CategorySlug(tbl[i].category) = category)}

\* order_by("-created_at"): created_at is set at insertion, so later ids first.
NewestFirst(S) == CHOOSE ord \in Orderings(S, {p \in S \X S : p[1] > p[2]}) : TRUE

\* {"count": qs.count(), "results": [... for i in qs[offset: offset + limit]]}
SearchResponse(rows, offset, limit) ==
    [count |-> Len(rows), results |-> Page(rows, offset, limit)]

\* The handler reads the tables and answers; the time the call takes is
\* fixed where the action is used.
LibrarySearch_get(u, q, category, limit, offset) ==
    /\ UNCHANGED <<submissions, items, reqs, entries, logs, events, imports>>
    /\ LET rows == NewestFirst(LibraryMatches(items, QueryText(q), OrEmpty(category).text))
           resp == IF Gate(IsAuthenticated(u), u) # 0
                   THEN [count |-> 0, results |-> << >>]
                   ELSE SearchResponse(rows, PageOffset(offset), PageLimit(limit))
       IN  last' = [op |-> "library", user |-> u, q |-> q, category |-> category,
                    limit |-> limit, offset |-> offset,
                    status |-> IF Gate(IsAuthenticated(u), u) # 0
                               THEN Gate(IsAuthenticated(u), u) ELSE 200,
                    count |-> resp.count, results |-> resp.results]

(***************************** PublicDictionarySearch **********************)
MaxSearches == 1  \* search requests served in one run

\* settings.FUZZY_SEARCH_ENABLED, the default of the environment variable.
FUZZY_SEARCH_ENABLED == TRUE

\* float(s) of a str, in hundredths: surrounding whitespace dropped, digits
\* with at most one point and at least one digit; anything else raises
\* ValueError.  The texts tried have at most two decimals and no sign.
FloatOfText(t) ==
    LET s == Strip(t)
        dots == {i \in 1..Len(s) : s[i] = "."}
        cut == IF dots = {} THEN Len(s) + 1 ELSE CHOOSE i \in dots : TRUE
        whole == SubSeq(s, 1, cut - 1)
        frac == SubSeq(s, cut + 1, Len(s))
        frac2 == SubSeq(frac \o <<"0", "0">>, 1, 2)
    IN  IF \/ Cardinality(dots) > 1
           \/ whole \o frac = << >>
           \/ \E i \in 1..Len(whole) : ~IsDigit(whole[i])
           \/ \E i \in 1..Len(frac) : ~IsDigit(frac[i])
        THEN Raise("ValueError")
        ELSE Value(DigitsValue(whole) * 100 + DigitsValue(frac2))

\* float(request.GET.get("similarity", "0.3")), in hundredths.
SimilarityParam(v) == IF v.kind = "absent" THEN Value(30) ELSE FloatOfText(v.text)

\* max(0.1, min(similarity_threshold, 1.0)), in hundredths.
ClampThreshold(x) == Max(10, Min(x, 100))

\* request.GET.get("fuzzy", "true").lower() == "true"
UseFuzzy(v) ==
    (IF v.kind = "absent" THEN <<"t", "r", "u", "e">> ELSE Lower(v.text))
        = <<"t", "r", "u", "e">>

\* pg_trgm: the words of a text, each padded with two blanks before and one
\* after, cut into its three-character windows.
RECURSIVE Words(_)
Words(t) ==
    IF t = << >> THEN {}
    ELSE IF Head(t) \in Whitespace THEN Words(Tail(t))
    ELSE LET n == CHOOSE k \in 1..Len(t) :
                     /\ \A i \in 1..k : t[i] \notin Whitespace
                     /\ k = Len(t) \/ t[k + 1] \in Whitespace
         IN  {SubSeq(t, 1, n)} \cup Words(SubSeq(t, n + 1, Len(t)))

WordTrigrams(w) ==
    LET p == <<" ", " ">> \o w \o <<" ">>
    IN  {SubSeq(p, i, i + 2) : i \in 1..(Len(p) - 2)}

Trigrams(t) == UNION {WordTrigrams(w) : w \in Words(Lower(t))}

\* TrigramSimilarity(field, q): shared trigrams over all trigrams, kept as
\* a fraction num/den (0/1 when neither text has a trigram).
Similarity(a, b) ==
    LET A == Trigrams(a)
        B == Trigrams(b)
    IN  IF A \cup B = {} THEN [num |-> 0, den |-> 1]
        ELSE [num |-> Cardinality(A \cap B), den |-> Cardinality(A \cup B)]

\* sim > threshold, the threshold in hundredths.
SimAbove(sim, threshold) == sim.num * 100 > threshold * sim.den
SimGreater(x, y) == x.num * y.den > y.num * x.den
SimEqual(x, y) == x.num * y.den = y.num * x.den

\* The order of the model's characters in the database collation.
Alphabet == <<" ", "a", "b", "c", "d", "x">>
Rank(c) == CHOOSE i \in 1..Len(Alphabet) : Alphabet[i] = c

\* a sorts before b.
RECURSIVE TextLess(_, _)
TextLess(a, b) ==
    IF b = << >> THEN FALSE
    ELSE IF a = << >> THEN TRUE
    ELSE IF Head(a) # Head(b) THEN Rank(Head(a)) < Rank(Head(b))
    ELSE TextLess(Tail(a), Tail(b))

\* A DictionaryEntry row.
NewEntry(lemma, gloss_ll, gloss_en) ==
    [lemma |-> lemma, gloss_ll |-> gloss_ll, gloss_en |-> gloss_en]

\* The fuzzy branch is taken.
FuzzyBranch(q, fuzzy) == q # EmptyText /\ FUZZY_SEARCH_ENABLED /\ UseFuzzy(fuzzy)

\* The rows of the queryset of PublicDictionarySearch.get.
DictionaryMatches(tbl, q, fuzzy, threshold) ==
    {i \in 1..Len(tbl) :
        IF q = EmptyText THEN TRUE
        ELSE IF FuzzyBranch(q, fuzzy)
        THEN \/ SimAbove(Similarity(tbl[i].lemma, q), threshold)
             \/ SimAbove(Similarity(tbl[i].gloss_ll, q), threshold)
             \/ SimAbove(Similarity(tbl[i].gloss_en, q), threshold)
        ELSE \/ IContains(tbl[i].lemma, q)
             \/ IContains(tbl[i].gloss_ll, q)
             \/ IContains(tbl[i].gloss_en, q)}

\* order_by('-lemma_sim', '-gloss_ll_sim', '-gloss_en_sim'): row a must
\* precede row b.
BetterMatch(tbl, q, a, b) ==
    LET la == Similarity(tbl[a].lemma, q)
        lb == Similarity(tbl[b].lemma, q)
        ga == Similarity(tbl[a].gloss_ll, q)
        gb == Similarity(tbl[b].gloss_ll, q)
        ea == Similarity(tbl[a].gloss_en, q)
        eb == Similarity(tbl[b].gloss_en, q)
    IN  \/ SimGreater(la, lb)
        \/ SimEqual(la, lb) /\ SimGreater(ga, gb)
        \/ SimEqual(la, lb) /\ SimEqual(ga, gb) /\ SimGreater(ea, eb)

\* The orders in which the database may return the queryset: by similarity
\* in the fuzzy branch, else by lemma.
DictionaryOrders(tbl, q, fuzzy, threshold) ==
    LET S == DictionaryMatches(tbl, q, fuzzy, threshold)
    IN  IF FuzzyBranch(q, fuzzy)
        THEN Orderings(S, {p \in S \X S : BetterMatch(tbl, q, p[1], p[2])})
        ELSE Orderings(S, {p \in S \X S : TextLess(tbl[p[1]].lemma, tbl[p[2]].lemma)})

\* The SearchQueryLog row the view creates: has_results = bool(results) and
\* results_count = len(results), both of the page returned; the meta keys
\* fuzzy_enabled and similarity_threshold (0 for None).
NewLog(u, q, fuzzy, threshold, resp) ==
    [source |-> "dictionary", query |-> q, has_results |-> resp.results # << >>,
     results_count |-> Len(resp.results),
     user |-> IF is_authenticated(u) THEN u ELSE NULL,
     fuzzy_enabled |-> FUZZY_SEARCH_ENABLED /\ UseFuzzy(fuzzy),
     similarity_threshold |-> IF FUZZY_SEARCH_ENABLED /\ UseFuzzy(fuzzy) THEN threshold ELSE 0]

\* A row logged before the run.
OldLog == NewLog("regular", <<"b">>, Absent, 30, [count |-> 2, results |-> <<4, 1>>])

PublicDictionarySearch_get(u, q, fuzzy, similarity, limit, offset) ==
    /\ UNCHANGED <<submissions, items, reqs, entries, events, imports>>
    /\ LET call == [op |-> "dictionary", user |-> u, q |-> q, fuzzy |-> fuzzy,
                    similarity |-> similarity, limit |-> limit, offset |-> offset]
           sim == SimilarityParam(similarity)
           threshold == ClampThreshold(sim.val)
       IN  IF ~sim.ok
           THEN /\ last' = call @@ [status |-> ExceptionStatus(sim.exc), count |-> 0,
                                    results |-> << >>, search_type |-> "none"]
                /\ UNCHANGED logs
           ELSE \E rows \in DictionaryOrders(entries, QueryText(q), fuzzy, threshold) :
                  LET resp == SearchResponse(rows, PageOffset(offset), PageLimit(limit))
                  IN  /\ logs' = Append(logs, NewLog(u, QueryText(q), fuzzy, threshold, resp))
                      /\ last' = call @@ [status |-> 200, count |-> resp.count,
                                          results |-> resp.results,
                                          search_type |-> IF FuzzyBranch(QueryText(q), fuzzy)
                                                          THEN "fuzzy" ELSE "exact"]

(***************************** search specification ************************)
\* The catalogue: a published item, an unpublished one that matches every
\* query the first matches, and two published items in category c.
Catalogue ==
    <<NewItem(<<"a", "b">>, EmptyText, EmptyText, NULL, TRUE, NULL, NoId),
      NewItem(<<"a", "b">>, <<"b">>, EmptyText, "c", FALSE, NULL, NoId),
      NewItem(<<"x">>, <<"A", "b">>, EmptyText, "c", TRUE, NULL, NoId),
      NewItem(<<"b">>, EmptyText, EmptyText, "c", TRUE, NULL, NoId)>>

\* The dictionary: rows 2 and 3 tie on every similarity to "ab".
Dictionary ==
    <<NewEntry(<<"a", "b">>, <<"b">>, <<"c">>),
      NewEntry(<<"a", "b", "c">>, <<"c">>, <<"c">>),
      NewEntry(<<"a", "b", "d">>, <<"c">>, <<"c">>),
      NewEntry(<<"b">>, <<"a", " ", "b">>, <<"c">>)>>

\* The query-string values tried: q, category, (limit, offset) and
\* (fuzzy, similarity).
Queries == {Absent, Str(<<" ", "A", "B">>), Str(<<"b">>), Str(<<"x">>)}
CategoryParams == {Absent, Str(<<"c">>), Str(<<"x">>)}
PageParams ==
    {<<Absent, Absent>>,
     <<Str(<<"1">>), Str(<<"1">>)>>,
     <<Str(<<"2">>), Str(<<"1">>)>>,
     <<Str(<<"2">>), Str(<<"3">>)>>,
     <<Absent, Str(<<"x">>)>>}
ModeParams ==
    {<<Absent, Absent>>,
     <<Str(<<"T", "r", "u", "e">>), Str(<<"2">>)>>,
     <<Str(<<"x">>), Absent>>,
     <<Absent, Str(<<"x">>)>>}

SearchInit ==
    /\ submissions = << >>
    /\ items = Catalogue
    /\ reqs = [r \in 1..MaxReq |-> IdleReq]
    /\ clock = 1
    /\ entries = Dictionary
    /\ logs = <<OldLog>>
    /\ events = << >>
    /\ jobs = << >>
    /\ cache = {}
    /\ last = NoExchange

\* A request is served: one tick of the clock, within the run's budget.
Served == clock <= MaxSearches /\ clock' = clock + 1

SearchNext ==
    \/ \E u \in Submitters, q \in Queries, c \in CategoryParams, p \in PageParams :
          Served /\ LibrarySearch_get(u, q, c, p[1], p[2])
    \/ \E u \in Submitters, q \in Queries, m \in ModeParams, p \in PageParams :
          Served /\ PublicDictionarySearch_get(u, q, m[1], m[2], p[1], p[2])

SearchSpec == SearchInit /\ [][SearchNext]_vars

(***************************** paging specification ************************)
MaxTextLen == 3   \* characters in a limit or offset value

\* The characters of the limit and offset values tried.
PagingChars == {"-", "0", "1", "5", "x"}
PagingTexts == UNION {[1..n -> PagingChars] : n \in 0..MaxTextLen}
PagingParams == {Absent} \cup {Str(t) : t \in PagingTexts}

\* A request whose limit and offset have not been read yet.
PagingRequest(limit, offset) ==
    [op |-> "paging", limit |-> limit, offset |-> offset, parsed |-> FALSE,
     view_limit |-> 0, view_offset |-> 0, util_limit |-> 0, util_offset |-> 0,
     error |-> FALSE]

PagingInit ==
    /\ submissions = << >>
    /\ items = << >>
    /\ reqs = [r \in 1..MaxReq |-> IdleReq]
    /\ clock = 1
    /\ entries = << >>
    /\ logs = << >>
    /\ events = << >>
    /\ jobs = << >>
    /\ cache = {}
    /\ last \in {PagingRequest(v, Absent) : v \in PagingParams}
                \cup {PagingRequest(Absent, v) : v \in PagingParams}

\* The pagination lines of the two search views and of paginate_queryset
\* (called with its default default_limit) applied to the request.
ParsePaging ==
    /\ last.op = "paging" /\ ~last.parsed
    /\ UNCHANGED <<submissions, items, reqs, clock, entries, logs, events, imports>>
    /\ last' = [last EXCEPT
                  !.parsed = TRUE,
                  !.view_limit = PageLimit(last.limit),
                  !.view_offset = PageOffset(last.offset),
                  !.util_limit = PaginateLimit(last.limit, 20),
                  !.util_offset = PaginateOffset(last.offset),
                  !.error = \/ Uncaught(last.limit, 20, {"ValueError"})
                            \/ Uncaught(last.offset, 0, {"ValueError"})
                            \/ Uncaught(last.limit, 20, {"ValueError", "TypeError"})
                            \/ Uncaught(last.offset, 0, {"ValueError", "TypeError"})]

PagingNext == ParsePaging

PagingSpec == PagingInit /\ [][PagingNext]_vars

(***************************** publication specification *******************)
\* The searches a reader makes while submissions are moderated.
ReaderQueries == {Absent, Str(<<"a">>), Str(<<"b">>)}

\* The moderation workflow together with library searches.
PublishNext ==
    \/ Next
    \/ \E q \in ReaderQueries :
          LibrarySearch_get("regular", q, Absent, Absent, Absent) /\ UNCHANGED clock

PublishSpec == Init /\ [][PublishNext]_vars

(***************************** properties **********************************)
Reqs == 1..MaxReq
SubIds == DOMAIN submissions

\* The items whose source_submission is submission pk.
ItemsOf(pk) == {i \in 1..Len(items) : items[i].source_submission = pk}

\* Request r was admitted, found its submission and read it as pending.
ReadPending(r) == reqs[r].sub # NoRow

\* Requests r and q overlapped: neither was answered before the other arrived.
Concurrent(r, q) == r # q /\ r \notin reqs[q].after /\ q \notin reqs[r].after

\* C1: at most one LibraryItem has a given submission as its
\* source_submission, in every state the submit, approve and reject
\* requests can reach, in every interleaving.
C1_AtMostOneItemPerSubmission ==
    \A pk \in SubIds : Cardinality(ItemsOf(pk)) <= 1

\* Two approve requests read the same pending submission concurrently and
\* both have been answered.
C1_Witness ==
    \E r, q \in Reqs :
        /\ Concurrent(r, q)
        /\ reqs[r].op = "approve" /\ reqs[q].op = "approve"
        /\ reqs[r].pc = "done" /\ reqs[q].pc = "done"
        /\ ReadPending(r) /\ ReadPending(q)
        /\ reqs[r].pk = reqs[q].pk

\* C2: two concurrent approve requests on one pending submission end with
\* exactly one success, one Conflict (400) failure and exactly one item.
C2_OneSuccessOneConflict ==
    \A r, q \in Reqs :
        ( /\ Concurrent(r, q)
          /\ reqs[r].op = "approve" /\ reqs[q].op = "approve"
          /\ reqs[r].pc = "done" /\ reqs[q].pc = "done"
          /\ ReadPending(r) /\ ReadPending(q)
          /\ reqs[r].pk = reqs[q].pk )
        => /\ {reqs[r].status, reqs[q].status} = {200, 400}
           /\ Cardinality(ItemsOf(reqs[r].pk)) = 1

\* C3: approve is all or nothing: no item has a source submission that is
\* still pending, and every approved submission has its item.
C3_ApproveAtomic ==
    /\ \A i \in 1..Len(items) :
          items[i].source_submission # NoId
          => submissions[items[i].source_submission].status # STATUS_PENDING
    /\ \A pk \in SubIds :
          submissions[pk].status = STATUS_APPROVED => ItemsOf(pk) # {}

\* An approve request failed between its status check and its writes, and
\* the submission it read is still pending with no item.
C3_Witness ==
    \E r \in Reqs :
        /\ reqs[r].op = "approve" /\ reqs[r].pc = "done"
        /\ ReadPending(r) /\ reqs[r].status = 500
        /\ submissions[reqs[r].pk].status = STATUS_PENDING
        /\ ItemsOf(reqs[r].pk) = {}

\* The view's post ran for request r (the caller passed the permission gate).
Admitted(r) == reqs[r].pk # NoId

\* No request other than r and q named submission pk.
OnlyOn(pk, r, q) == \A x \in Reqs \ {r, q} : reqs[x].pk # pk

\* C4: approved and rejected are terminal: once a submission's status has
\* left pending, no step changes its status, reviewed_by, reviewed_at or
\* rejection_reason.
C4_TerminalStatus ==
    [][\A pk \in SubIds :
          submissions[pk].status # STATUS_PENDING
          => /\ submissions'[pk].status = submissions[pk].status
             /\ submissions'[pk].reviewed_by = submissions[pk].reviewed_by
             /\ submissions'[pk].reviewed_at = submissions[pk].reviewed_at
             /\ submissions'[pk].rejection_reason = submissions[pk].rejection_reason]_vars

\* C5: an approve of a pending submission followed, after its response, by
\* a second approve or a reject of the same id gives exactly one success
\* and one conflict (400), and exactly one item with that source.
C5_ApproveThenSecond ==
    \A r, q \in Reqs :
        ( /\ reqs[r].op = "approve" /\ reqs[r].pc = "done" /\ ReadPending(r)
          /\ reqs[q].op \in {"approve", "reject"} /\ reqs[q].pc = "done"
          /\ Admitted(q) /\ reqs[q].pk = reqs[r].pk
          /\ r \in reqs[q].after
          /\ OnlyOn(reqs[r].pk, r, q) )
        => /\ {reqs[r].status, reqs[q].status} = {200, 400}
           /\ Cardinality(ItemsOf(reqs[r].pk)) = 1

\* C6: an approve of a pending submission by a moderator succeeds: it
\* creates exactly one item with the submission's title, description and
\* url, published, with the submission as source and its submitter as
\* submitted_by, marks the submission approved by the caller, and names the
\* item in its response.
C6_ApproveCreatesItem ==
    \A r \in Reqs :
        ( /\ reqs[r].op = "approve" /\ reqs[r].pc = "done" /\ ReadPending(r)
          /\ OnlyOn(reqs[r].pk, r, r) )
        => LET pk == reqs[r].pk
               sub == submissions[pk]
           IN  /\ reqs[r].status = 200
               /\ ItemsOf(pk) = {reqs[r].item_id}
               /\ \A i \in ItemsOf(pk) :
                     /\ items[i].title = sub.title
                     /\ items[i].description = sub.description
                     /\ items[i].url = sub.url
                     /\ items[i].is_published
                     /\ items[i].submitted_by = sub.submitted_by
               /\ sub.status = STATUS_APPROVED
               /\ sub.reviewed_by = reqs[r].user
               /\ sub.reviewed_at # NoTime

\* The step in which reject request r writes the row and answers 200.
RejectSucceeds(r) ==
    /\ reqs[r].op = "reject" /\ reqs[r].pc = "got"
    /\ reqs'[r].pc = "done" /\ reqs'[r].status = 200

\* The reason as the request body supplies it: "" when there is none.
Supplied(body) == IF body.kind = "str" THEN body.text ELSE EmptyText

\* What a successful reject leaves in the row, given the reason it stores.
Rejected(r, reason) ==
    LET sub == submissions'[reqs[r].pk]
    IN  /\ sub.status = STATUS_REJECTED
        /\ sub.reviewed_by = reqs[r].user
        /\ sub.reviewed_at # NoTime
        /\ sub.rejection_reason = reason

\* C7 as stated: a successful reject stores the supplied reason exactly.
C7_ReasonStoredExactly ==
    [][\A r \in Reqs : RejectSucceeds(r) => Rejected(r, Supplied(reqs[r].body))]_vars

\* C7: a successful reject sets status rejected, reviewed_by the caller,
\* reviewed_at, and rejection_reason to the supplied reason with leading
\* and trailing whitespace stripped ("" when no reason is supplied).
C7_ReasonStoredStripped ==
    [][\A r \in Reqs : RejectSucceeds(r) => Rejected(r, Strip(Supplied(reqs[r].body)))]_vars

\* A reject whose reason began with whitespace succeeded and the row holds
\* the stripped reason.
C7_Witness ==
    \E r \in Reqs :
        /\ reqs[r].op = "reject" /\ reqs[r].pc = "done" /\ reqs[r].status = 200
        /\ reqs[r].body.kind = "str" /\ Head(reqs[r].body.text) \in Whitespace
        /\ submissions[reqs[r].pk].status = STATUS_REJECTED
        /\ submissions[reqs[r].pk].reviewed_by = reqs[r].user
        /\ submissions[reqs[r].pk].rejection_reason = Strip(reqs[r].body.text)
        /\ submissions[reqs[r].pk].rejection_reason # reqs[r].body.text

\* C8: a step of a reject request, whoever the caller, whatever the id and
\* the body, and whether it succeeds or fails, leaves the items unchanged.
C8_RejectKeepsItems ==
    [][\A r \in Reqs :
          (reqs'[r].op = "reject" /\ reqs'[r] # reqs[r]) => items' = items]_vars

\* Reject requests have been answered with a success and with a failure,
\* and the catalog is the one there was before them.
C8_Witness ==
    /\ \E r \in Reqs :
          reqs[r].op = "reject" /\ reqs[r].pc = "done" /\ reqs[r].status = 200
    /\ \E r \in Reqs :
          reqs[r].op = "reject" /\ reqs[r].pc = "done" /\ reqs[r].status # 200
    /\ items = <<DirectItem>>

\* C9: a pending submission has reviewed_by and reviewed_at both null; an
\* approved or rejected one has both set.
C9_ReviewerIffReviewed ==
    \A pk \in SubIds :
        IF submissions[pk].status = STATUS_PENDING
        THEN submissions[pk].reviewed_by = NULL /\ submissions[pk].reviewed_at = NoTime
        ELSE submissions[pk].reviewed_by # NULL /\ submissions[pk].reviewed_at # NoTime

\* A submission has been rejected and carries its reviewer and review time.
C9_Witness ==
    \E pk \in SubIds :
        /\ submissions[pk].status = STATUS_REJECTED
        /\ submissions[pk].reviewed_by \in Users
        /\ submissions[pk].reviewed_at >= 1

\* C10: a submission whose status is not rejected has an empty
\* rejection_reason.
C10_ReasonOnlyWhenRejected ==
    \A pk \in SubIds :
        submissions[pk].status # STATUS_REJECTED
        => submissions[pk].rejection_reason = EmptyText

\* An approve and a reject of the same pending submission ran concurrently
\* and the submission ended rejected with a reason.
C10_Witness ==
    \E r, q \in Reqs :
        /\ Concurrent(r, q)
        /\ reqs[r].op = "approve" /\ reqs[r].pc = "done" /\ ReadPending(r)
        /\ reqs[q].op = "reject" /\ reqs[q].pc = "done" /\ ReadPending(q)
        /\ reqs[r].pk = reqs[q].pk
        /\ submissions[reqs[q].pk].status = STATUS_REJECTED
        /\ submissions[reqs[q].pk].rejection_reason # EmptyText

(***************************** C11 - C12 ***********************************)
\* Request r takes its first step: the permission gate, the get and the
\* status test.
Arrives(r) == reqs[r].pc = "idle" /\ reqs'[r].pc # "idle"

\* The text names the status st.
NamesStatus(detail, st) == \E i \in DOMAIN detail : detail[i] = st

\* C11: an approve or reject that names no submission is answered 404; one
\* that names a submission whose status is not pending is answered 400 with
\* a detail that names that status; neither changes a submission or an item.
C11_NotFoundOrConflict ==
    [][\A r \in Reqs :
          (Arrives(r) /\ reqs'[r].pk # NoId)
          => LET pk == reqs'[r].pk
             IN  /\ pk \notin SubIds
                    => /\ reqs'[r].pc = "done" /\ reqs'[r].status = 404
                       /\ submissions' = submissions /\ items' = items
                 /\ (pk \in SubIds /\ submissions[pk].status # STATUS_PENDING)
                    => /\ reqs'[r].pc = "done" /\ reqs'[r].status = 400
                       /\ NamesStatus(reqs'[r].detail, submissions[pk].status)
                       /\ submissions' = submissions /\ items' = items]_vars

\* C12: an approve or reject changes state only for a moderator (superuser,
\* staff, manager group or editor group) and every moderator is admitted;
\* an authenticated non-moderator is answered 403 and a caller without
\* credentials 401, and their requests change no table.
C12_ModeratorsOnly ==
    [][\A r \in Reqs :
          Arrives(r)
          => LET u == reqs'[r].user
             IN  /\ IsModeratorOrAdmin(u) => reqs'[r].status \notin {401, 403}
                 /\ (is_authenticated(u) /\ ~IsModeratorOrAdmin(u))
                    => reqs'[r].pc = "done" /\ reqs'[r].status = 403
                 /\ ~is_authenticated(u)
                    => reqs'[r].pc = "done" /\ reqs'[r].status = 401
                 /\ ~IsModeratorOrAdmin(u)
                    => submissions' = submissions /\ items' = items]_vars

(***************************** C13 *****************************************)
\* A step of a submit call.
SubmitStep == last'.op = "submit" /\ (last' # last \/ submissions' # submissions)

\* The title is missing, or blank once trimmed.
BlankTitle(title) ==
    title.kind = "absent" \/ (title.kind = "str" /\ Strip(title.text) = EmptyText)

\* C13: a submit by an authenticated caller whose title is missing or blank
\* after trimming is answered 400 and creates no submission; every
\* successful submit appends exactly one submission: pending, its title the
\* trimmed title, submitted_by the caller, reviewer, review time and
\* rejection reason unset; no other submit creates a row.
C13_SubmitValidated ==
    [][SubmitStep
       => /\ (is_authenticated(last'.user) /\ BlankTitle(last'.title))
             => last'.status = 400 /\ submissions' = submissions
          /\ last'.status = 201
             => /\ Len(submissions') = Len(submissions) + 1
                /\ SubSeq(submissions', 1, Len(submissions)) = submissions
                /\ LET row == submissions'[Len(submissions')]
                   IN  /\ row.status = STATUS_PENDING
                       /\ row.title = Strip(last'.title.text)
                       /\ row.title # EmptyText
                       /\ row.submitted_by = last'.user
                       /\ row.reviewed_by = NULL
                       /\ row.reviewed_at = NoTime
                       /\ row.rejection_reason = EmptyText
          /\ last'.status # 201 => submissions' = submissions]_vars

\* A submit with a padded title succeeded and its row holds the trimmed title.
C13_Witness ==
    /\ last.op = "submit" /\ last.status = 201
    /\ last.title.text # Strip(last.title.text)
    /\ submissions # << >>
    /\ submissions[Len(submissions)].title = Strip(last.title.text)

(***************************** C20 *****************************************)
\* A step of a track call.
TrackStep == last'.op = "track" /\ (last' # last \/ events' # events)

\* The item_id sent is an integer: a JSON integer, or the text of one.
IsIntegerId(v) == v.kind = "int" \/ (v.kind = "str" /\ IntOfText(v.text).ok)

\* C20: a track call by an authenticated caller creates exactly one event,
\* with the caller as user, when event_type is view, download or complete
\* and item_id is an integer naming a published item; it is answered 404
\* for an id of no item or of an unpublished one, and 400 for an item_id
\* that is not an integer or an event_type outside the three, creating no
\* event; no event refers to an unpublished item.
C20_TrackOutcome ==
    [][(TrackStep /\ is_authenticated(last'.user))
       => LET x == last'
              typed == x.event_type.kind = "str" /\ x.event_type.text \in EVENT_TYPES
              integer == IsIntegerId(x.item_id)
              id == PyInt(x.item_id).val
          IN  /\ (typed /\ integer /\ PublishedItem(items, id))
                 => /\ x.status = 201
                    /\ events' = Append(events, NewEvent(x.user, id, x.event_type.text))
              /\ (typed /\ integer /\ ~PublishedItem(items, id))
                 => x.status = 404 /\ events' = events
              /\ (~typed \/ ~integer)
                 => x.status = 400 /\ events' = events
              /\ \A e \in 1..Len(events') : PublishedItem(items', events'[e].item)]_vars

(***************************** C14 *****************************************)
\* A step of a library search that was answered 200.
LibraryStep == last' # last /\ last'.op = "library" /\ last'.status = 200

\* Approve request r of a pending submission has been answered.
ApproveAnswered(r) ==
    reqs[r].op = "approve" /\ reqs[r].pc = "done" /\ ReadPending(r)

LibraryAnswered == last.op = "library" /\ last.status = 200

\* Item i passes the q and category filters of the last library search.
PassesFilters(i) ==
    LET q == Strip(OrEmpty(last.q).text)
        c == OrEmpty(last.category).text
    IN  /\ q # EmptyText
           => (IContains(items[i].title, q) \/ IContains(items[i].description, q))
        /\ c # EmptyText
           => (items[i].category # NULL /\ CategorySlug(items[i].category) = c)

\* C15: a library search returns only published items and its count is the
\* number of published items that pass its filters, whatever q, category,
\* limit and offset are.
C15_OnlyPublished ==
    LibraryAnswered
    => /\ \A k \in 1..Len(last.results) : items[last.results[k]].is_published
       /\ last.count = Cardinality({i \in 1..Len(items) :
                                       items[i].is_published /\ PassesFilters(i)})

\* A library search whose filters the unpublished item 2 passes was answered
\* with other items and without item 2.
C15_Witness ==
    /\ LibraryAnswered
    /\ ~items[2].is_published /\ PassesFilters(2)
    /\ Strip(OrEmpty(last.q).text) # EmptyText
    /\ last.results # << >>
    /\ \A k \in 1..Len(last.results) : last.results[k] # 2

\* The response of the last call is the page [offset, offset + limit) of rows.
IsPageOf(rows) ==
    LET limit == PageLimit(last.limit)
        offset == PageOffset(last.offset)
    IN  /\ last.count = Len(rows)
        /\ Len(last.results) = Min(limit, Max(0, last.count - offset))
        /\ \A k \in 1..Len(last.results) : last.results[k] = rows[offset + k]

\* C16: in a library search and in a dictionary search the count is the
\* size of the whole filtered set, whatever limit and offset are, and the
\* results are the rows at positions [offset, offset + limit) of the ordered
\* filtered set, min(limit, max(0, count - offset)) of them.
C16_CountAndPage ==
    /\ LibraryAnswered
       => IsPageOf(NewestFirst(LibraryMatches(items, QueryText(last.q),
                                              OrEmpty(last.category).text)))
    /\ (last.op = "dictionary" /\ last.status = 200)
       => \E rows \in DictionaryOrders(entries, QueryText(last.q), last.fuzzy,
                                       ClampThreshold(SimilarityParam(last.similarity).val)) :
             IsPageOf(rows)

\* A dictionary search with a positive offset returned a page that is
\* shorter than what follows the offset.
C16_Witness ==
    /\ last.op = "dictionary" /\ last.status = 200
    /\ PageOffset(last.offset) > 0
    /\ last.results # << >>
    /\ Len(last.results) < last.count - PageOffset(last.offset)

(***************************** C18 - C19 ***********************************)
\* A step of a dictionary search call.
DictionaryStep == clock' # clock /\ last'.op = "dictionary"

\* C18: every dictionary search call, whatever q, limit, offset, fuzzy and
\* similarity are, appends exactly one SearchQueryLog row, with source
\* "dictionary" and has_results = (results_count > 0), and leaves the rows
\* there were as they are.
C18_OneLogPerSearch ==
    [][DictionaryStep
       => /\ Len(logs') = Len(logs) + 1
          /\ SubSeq(logs', 1, Len(logs)) = logs
          /\ logs'[Len(logs')].source = "dictionary"
          /\ logs'[Len(logs')].has_results = (logs'[Len(logs')].results_count > 0)]_vars

\* C19: the row logged for a dictionary search has has_results = (the count
\* of the response > 0) and results_count = the number of entries in the
\* results of the response, whatever limit and offset are.
C19_LogMatchesResponse ==
    [][(DictionaryStep /\ last'.status = 200)
       => /\ Len(logs') = Len(logs) + 1
          /\ logs'[Len(logs')].has_results = (last'.count > 0)
          /\ logs'[Len(logs')].results_count = Len(last'.results)]_vars

(***************************** C17 *****************************************)
\* The integer a parameter asks for, when it is one.
IsInteger(v) == v.kind = "str" /\ IntOfText(v.text).ok
Requested(v) == IntOfText(v.text).val

\* C17: in the search views and in paginate_queryset the effective limit is
\* the requested integer clamped to [1, 100], and 20 when the parameter is
\* absent or not an integer; the effective offset is the requested integer
\* clamped to >= 0, and 0 when absent or not an integer; no value of either
\* parameter causes an error.
C17_ClampedPaging ==
    (last.op = "paging" /\ last.parsed)
    => LET limit == IF ~IsInteger(last.limit) THEN 20
                    ELSE IF Requested(last.limit) < 1 THEN 1
                    ELSE IF Requested(last.limit) > 100 THEN 100
                    ELSE Requested(last.limit)
           offset == IF ~IsInteger(last.offset) THEN 0
                     ELSE IF Requested(last.offset) < 0 THEN 0
                     ELSE Requested(last.offset)
       IN  /\ last.view_limit = limit /\ last.util_limit = limit
           /\ last.view_offset = offset /\ last.util_offset = offset
           /\ ~last.error

\* A limit above 100 was clamped.
C17_Witness ==
    /\ last.op = "paging" /\ last.parsed
    /\ IsInteger(last.limit) /\ Requested(last.limit) > 100
    /\ last.view_limit = 100 /\ last.util_limit = 100

\* ---- Claims on rejected submissions and the catalog ----

\* C28: in every reachable state, also after an approve and a reject of the
\* same pending submission ran concurrently, no submission whose status is
\* rejected is the source_submission of a LibraryItem.
C28_NoItemFromRejected ==
    \A pk \in SubIds :
        submissions[pk].status = STATUS_REJECTED => ItemsOf(pk) = {}

\* An approve and a reject request read the same pending submission
\* concurrently, both have been answered, and the submission is rejected.
C28_Witness ==
    \E r, q \in Reqs :
        /\ Concurrent(r, q)
        /\ reqs[r].op = "approve" /\ reqs[q].op = "reject"
        /\ reqs[r].pc = "done" /\ reqs[q].pc = "done"
        /\ ReadPending(r) /\ ReadPending(q)
        /\ reqs[r].pk = reqs[q].pk
        /\ submissions[reqs[q].pk].status = STATUS_REJECTED

(***************************** permission classes **************************)
\* has_permission(request, view) of the three role classes, asked for one
\* account and one HTTP method.  None of the three reads request.method.
Methods == {"GET", "HEAD", "OPTIONS", "POST", "PUT", "PATCH", "DELETE"}

PermissionRequest(u, method) ==
    [op |-> "permission", user |-> u, method |-> method, checked |-> FALSE,
     moderator |-> FALSE, manager |-> FALSE, staff |-> FALSE]

PermInit ==
    /\ submissions = << >>
    /\ items = << >>
    /\ reqs = [r \in 1..MaxReq |-> IdleReq]
    /\ clock = 1
    /\ entries = << >>
    /\ logs = << >>
    /\ events = << >>
    /\ jobs = << >>
    /\ cache = {}
    /\ \E u \in Accounts, method \in Methods : last = PermissionRequest(u, method)

has_permission ==
    /\ last.op = "permission" /\ ~last.checked
    /\ last' = [last EXCEPT !.checked = TRUE,
                            !.moderator = IsModeratorOrAdmin(last.user),
                            !.manager = IsManagerOrAdmin(last.user),
                            !.staff = IsStaffUser(last.user)]
    /\ UNCHANGED <<submissions, items, reqs, clock, entries, logs, events, imports>>

PermNext == has_permission

PermSpec == PermInit /\ [][PermNext]_vars

\* ---- Claims on the permission classes ----

\* C27: for every account and HTTP method, IsModeratorOrAdmin grants exactly
\* when the caller is authenticated and is a superuser, staff, or in the
\* manager or editor group; IsManagerOrAdmin exactly when authenticated and
\* superuser, staff or in the manager group; IsStaffUser exactly when
\* authenticated and staff; so whoever passes IsStaffUser passes
\* IsManagerOrAdmin, and whoever passes that passes IsModeratorOrAdmin.
C27_RoleGrants ==
    (last.op = "permission" /\ last.checked)
    => LET u == last.user
           authenticated == u # "anon"
       IN  /\ last.moderator <=> (authenticated /\ u \in SuperAccounts \cup StaffAccounts
                                                       \cup ManagerAccounts \cup EditorAccounts)
           /\ last.manager <=> (authenticated /\ u \in SuperAccounts \cup StaffAccounts
                                                     \cup ManagerAccounts)
           /\ last.staff <=> (authenticated /\ u \in StaffAccounts)
           /\ last.staff => last.manager
           /\ last.manager => last.moderator

\* A member of the editor group alone was asked about a POST: granted by
\* IsModeratorOrAdmin, refused by the other two.
C27_Witness ==
    /\ last.op = "permission" /\ last.checked
    /\ last.user = "editor" /\ last.method = "POST"
    /\ last.moderator /\ ~last.manager /\ ~last.staff

(***************************** response bodies *****************************)
\* The body a view builds itself: Response({"detail": ...}, status=...).
ViewBody(detail) == [detail |-> detail]

\* The body custom_exception_handler builds for an exception a view or its
\* permission check lets out: DRF's own body with error_type added for a DRF
\* exception, and a detail with a fixed error_type for the others.
HandlerBody(exc) ==
    CASE exc \in {"NotAuthenticated", "PermissionDenied"} ->
            [detail |-> DeniedDetail, error_type |-> exc]
      [] exc = "Http404" ->
            [detail |-> <<"Not", "found", ".">>, error_type |-> "NotFound"]
      [] exc = "ValidationError" ->
            [detail |-> <<"Validation", "error", ".">>, errors |-> <<exc>>,
             error_type |-> "ValidationError"]
      [] exc = "IntegrityError" ->
            [detail |-> <<"Database", "integrity", "error", ".">>,
             error_type |-> "IntegrityError"]
      [] OTHER ->
            [detail |-> <<"An", "unexpected", "error", "occurred", ".">>,
             error_type |-> "InternalServerError"]

\* The body of the response an answered moderation request received.
ResponseBody(req) ==
    IF req.detail = DeniedDetail
    THEN HandlerBody(IF is_authenticated(req.user) THEN "PermissionDenied"
                     ELSE "NotAuthenticated")
    ELSE IF Len(req.detail) = 1 THEN HandlerBody(req.detail[1])
    ELSE ViewBody(req.detail)

\* ---- Claims on failure responses ----

\* C26: every failure response carries success = false and a code of the
\* taxonomy that matches the failure: unauthenticated for missing
\* credentials, permission_denied for an insufficient role, not_found for a
\* missing id, conflict for an approve or reject of a non-pending
\* submission, validation_error for other invalid input, server_error for
\* an unexpected failure.
C26_ErrorEnvelope ==
    \A r \in Reqs :
        (reqs[r].pc = "done" /\ reqs[r].status >= 400)
        => LET body == ResponseBody(reqs[r])
           IN  /\ "success" \in DOMAIN body
               /\ body.success = FALSE
               /\ "code" \in DOMAIN body
               /\ body.code = CASE reqs[r].status = 401 -> "unauthenticated"
                                [] reqs[r].status = 403 -> "permission_denied"
                                [] reqs[r].status = 404 -> "not_found"
                                [] reqs[r].status = 500 -> "server_error"
                                [] reqs[r].detail = AlreadyReviewedDetail -> "conflict"
                                [] OTHER -> "validation_error"

(***************************** imports *************************************)
\* The three import views (views_import.py).  One import request is one
\* step: the rows are handled in order, every ORM call autocommits, so when
\* a row raises, what the rows before it wrote stays written and the job row
\* stays as create_job made it.  Field values of a row are strings or absent
\* (JSON null, a missing key, a missing CSV column); NonStr is a JSON value
\* that is neither (a number, a list), which only a JSON payload can hold.
MaxImports == 2   \* import requests in one run

\* `value or old`: the value when it is a non-empty string, else old.
OrElse_Blanks(v, old) == OrEmpty(v).text

OrElse(v, old) == IF OrEmpty(v).text # EmptyText THEN OrEmpty(v).text ELSE old

\* One line of a job's log: the fixed text, the row it is about (0 for the
\* opening line) and the key it names.
LogLine(text, idx, key) == [text |-> text, row |-> idx, key |-> key]

\* ImportJob.objects.create(...) of create_job.
create_job(job_type, u) ==
    [job_type |-> job_type, created_by |-> u, total_rows |-> 0,
     success_rows |-> 0, failed_rows |-> 0, log |-> << >>]

\* finalize_job without the counts among its update_fields.
finalize_job_LogOnly(job, run) == [job EXCEPT !.log = run.log]

\* finalize_job: the counts the loop kept on the instance and the joined log.
finalize_job(job, run) ==
    [job EXCEPT !.total_rows = run.total_rows, !.success_rows = run.success_rows,
                !.failed_rows = run.failed_rows, !.log = run.log]

\* The loop's locals before the first row: the table, the counts on the job
\* instance, the log list, and the exception that ended the loop, if any.
StartImport(tbl, opening) ==
    [table |-> tbl, total_rows |-> 0, success_rows |-> 0, failed_rows |-> 0,
     log |-> <<LogLine(opening, 0, EmptyText)>>, exc |-> "none"]

\* A JSON array element that is an object with these keys, and one that is
\* no object (a string, a number): item.get raises AttributeError on it.
EntryRow(lemma, gloss_ll, gloss_en) ==
    [object |-> TRUE, lemma |-> lemma, gloss_ll |-> gloss_ll, gloss_en |-> gloss_en]
NonObject == [object |-> FALSE]

\* (row.get(key) or "").strip(): AttributeError when the value is a
\* non-string that is not falsy.
KeyOf(row, v) ==
    IF ~row.object \/ OrEmpty(v).kind # "str" THEN Raise("AttributeError")
    ELSE [ok |-> TRUE, val |-> Strip(OrEmpty(v).text), exc |-> "none"]

\* The body of the dictionary loops for one row: count it, skip and log it
\* when the lemma is blank, else get_or_create by lemma and, when the entry
\* existed, overwrite each gloss the row supplies and save.
ImportEntry(acc, idx, row, missing) ==
    LET counted == [acc EXCEPT !.total_rows = @ + 1]
        lemma == KeyOf(row, IF row.object THEN row.lemma ELSE Absent)
        found == {i \in DOMAIN acc.table : acc.table[i].lemma = lemma.val}
    IN  IF ~lemma.ok THEN [counted EXCEPT !.exc = lemma.exc]
        ELSE IF lemma.val = EmptyText
        THEN [counted EXCEPT !.failed_rows = @ + 1,
                             !.log = Append(@, LogLine(missing, idx, EmptyText))]
        ELSE IF found = {}
        THEN [counted EXCEPT !.success_rows = @ + 1,
                  !.table = Append(@, NewEntry(lemma.val, OrEmpty(row.gloss_ll).text,
                                               OrEmpty(row.gloss_en).text))]
        ELSE LET i == CHOOSE i \in found : TRUE
             IN  [counted EXCEPT !.success_rows = @ + 1,
                      !.table[i].gloss_ll = OrElse(row.gloss_ll, @),
                      !.table[i].gloss_en = OrElse(row.gloss_en, @)]

RECURSIVE ImportEntries(_, _, _, _)
ImportEntries(rows, idx, acc, missing) ==
    IF idx > Len(rows) \/ acc.exc # "none" THEN acc
    ELSE ImportEntries(rows, idx + 1, ImportEntry(acc, idx, rows[idx], missing), missing)

\* The columns of LibraryItem, and the names LibraryImportJSONView passes to
\* get_or_create as defaults.
LibraryItemFields ==
    {"category", "title", "description", "url", "is_published", "submitted_by",
     "source_submission", "created_at"}
ImportDefaults == {"description", "url", "item_type", "is_published"}

\* A JSON object of the items array; is_published is a boolean or missing.
Missing == [present |-> FALSE, value |-> FALSE]
Given(b) == [present |-> TRUE, value |-> b]
ItemRow(title, description, url, item_type, is_published) ==
    [object |-> TRUE, title |-> title, description |-> description, url |-> url,
     item_type |-> item_type, is_published |-> is_published]

\* The body of the library loop for one row.  get_or_create gets by title;
\* title is not unique, so the get may find several rows; when it finds none
\* it validates the names of the defaults against the model's fields before
\* it inserts.  The update reads library_item.item_type when the row gives
\* no item_type.
ImportItem(acc, idx, row) ==
    LET counted == [acc EXCEPT !.total_rows = @ + 1]
        title == KeyOf(row, IF row.object THEN row.title ELSE Absent)
        found == {i \in DOMAIN acc.table : acc.table[i].title = title.val}
    IN  IF ~title.ok THEN [counted EXCEPT !.exc = title.exc]
        ELSE IF title.val = EmptyText
        THEN [counted EXCEPT !.failed_rows = @ + 1,
                             !.log = Append(@, LogLine("missing title", idx, EmptyText))]
        ELSE IF Cardinality(found) > 1
        THEN [counted EXCEPT !.exc = "MultipleObjectsReturned"]
        ELSE IF found = {}
        THEN IF ~(ImportDefaults \subseteq LibraryItemFields)
             THEN [counted EXCEPT !.exc = "FieldError"]
             ELSE [counted EXCEPT !.success_rows = @ + 1,
                       !.table = Append(@, NewItem(title.val, OrEmpty(row.description).text,
                                            OrEmpty(row.url).text, NULL,
                                            IF row.is_published.present
                                            THEN row.is_published.value ELSE TRUE,
                                            NULL, NoId)),
                       !.log = Append(@, LogLine("created", idx, title.val))]
        ELSE IF row.item_type \in {Absent, Str(EmptyText)}
                /\ "item_type" \notin LibraryItemFields
        THEN [counted EXCEPT !.exc = "AttributeError"]
        ELSE LET i == CHOOSE i \in found : TRUE
             IN  [counted EXCEPT !.success_rows = @ + 1,
                      !.table[i].description = OrElse(row.description, @),
                      !.table[i].url = OrElse(row.url, @),
                      !.table[i].is_published =
                          IF row.is_published.present THEN row.is_published.value ELSE @,
                      !.log = Append(@, LogLine("updated", idx, title.val))]

RECURSIVE ImportItems(_, _, _)
ImportItems(rows, idx, acc) ==
    IF idx > Len(rows) \/ acc.exc # "none" THEN acc
    ELSE ImportItems(rows, idx + 1, ImportItem(acc, idx, rows[idx]))

\* What a request carries as its file or its "entries" / "items" value: a
\* list of rows, a JSON value that is no list, no file, or a file whose
\* bytes are not UTF-8.
ListOf(rows) == [kind |-> "list", rows |-> rows]
NotAList == [kind |-> "notlist", rows |-> << >>]
NoFile == [kind |-> "nofile", rows |-> << >>]
Undecodable == [kind |-> "undecodable", rows |-> << >>]

\* The request and the response of an import call.
ImportExchange(view, u, payload, code, job_id, run) ==
    [op |-> "import", view |-> view, user |-> u, payload |-> payload, status |-> code,
     job_id |-> job_id, total_rows |-> run.total_rows, success_rows |-> run.success_rows,
     failed_rows |-> run.failed_rows]

NoRun == StartImport(<< >>, "none")

\* What a view does once its rows ran: the table as the rows left it, the
\* job finalized when no row raised, and the response.
ImportOutcome(view, job_type, u, payload, run) ==
    /\ jobs' = Append(jobs, IF run.exc = "none"
                            THEN finalize_job(create_job(job_type, u), run)
                            ELSE create_job(job_type, u))
    /\ last' = IF run.exc = "none"
               THEN ImportExchange(view, u, payload, 200, Len(jobs) + 1, run)
               ELSE ImportExchange(view, u, payload, ExceptionStatus(run.exc), NoId, NoRun)

DictionaryImportCSVView_post(u, payload) ==
    /\ UNCHANGED <<submissions, items, reqs, logs, events, cache>>
    /\ IF Gate(IsStaffUser(u), u) # 0
       THEN /\ last' = ImportExchange("dictionary_csv", u, payload,
                                      Gate(IsStaffUser(u), u), NoId, NoRun)
            /\ UNCHANGED <<entries, jobs>>
       ELSE IF payload.kind = "nofile"
       THEN /\ last' = ImportExchange("dictionary_csv", u, payload, 400, NoId, NoRun)
            /\ UNCHANGED <<entries, jobs>>
       ELSE IF payload.kind = "undecodable"
       THEN /\ jobs' = Append(jobs, create_job("dictionary", u))
            /\ last' = ImportExchange("dictionary_csv", u, payload, 400, NoId, NoRun)
            /\ UNCHANGED entries
       ELSE LET run == ImportEntries(payload.rows, 1,
                           StartImport(entries, "Starting dictionary CSV import."),
                           "Row: missing lemma")
            IN  /\ entries' = run.table
                /\ ImportOutcome("dictionary_csv", "dictionary", u, payload, run)

DictionaryImportJSONView_post(u, payload) ==
    /\ UNCHANGED <<submissions, items, reqs, logs, events, cache>>
    /\ IF Gate(IsStaffUser(u), u) # 0
       THEN /\ last' = ImportExchange("dictionary_json", u, payload,
                                      Gate(IsStaffUser(u), u), NoId, NoRun)
            /\ UNCHANGED <<entries, jobs>>
       ELSE IF payload.kind # "list"
       THEN /\ last' = ImportExchange("dictionary_json", u, payload, 400, NoId, NoRun)
            /\ UNCHANGED <<entries, jobs>>
       ELSE LET run == ImportEntries(payload.rows, 1,
                           StartImport(entries, "Starting dictionary JSON import."),
                           "Item: missing lemma")
            IN  /\ entries' = run.table
                /\ ImportOutcome("dictionary_json", "dictionary", u, payload, run)

LibraryImportJSONView_post(u, payload) ==
    /\ UNCHANGED <<submissions, entries, reqs, logs, events, cache>>
    /\ IF Gate(IsStaffUser(u), u) # 0
       THEN /\ last' = ImportExchange("library_json", u, payload,
                                      Gate(IsStaffUser(u), u), NoId, NoRun)
            /\ UNCHANGED <<items, jobs>>
       ELSE IF payload.kind # "list"
       THEN /\ last' = ImportExchange("library_json", u, payload, 400, NoId, NoRun)
            /\ UNCHANGED <<items, jobs>>
       ELSE LET run == ImportItems(payload.rows, 1,
                           StartImport(items, "Starting library JSON import."))
            IN  /\ items' = run.table
                /\ ImportOutcome("library_json", "library", u, payload, run)

\* The rows of the runs: a CSV file can hold the first set, whose values are
\* strings or missing columns; a JSON array can also hold the second.
TextRows ==
    {EntryRow(Str(<<"a">>), Str(<<"x">>), Absent),
     EntryRow(Str(<<"a">>), Str(EmptyText), Str(EmptyText)),
     EntryRow(Str(<<" ", "b">>), Str(<<"y">>), Str(<<"x">>)),
     EntryRow(Str(<<"b">>), Absent, Str(<<"y">>)),
     EntryRow(Str(<<" ">>), Str(<<"x">>), Str(<<"x">>)),
     EntryRow(Absent, Str(<<"x">>), Absent)}
JsonRows == TextRows \cup {EntryRow(NonStr, Absent, Absent), NonObject}

\* The files and "entries" values sent: the empty list, one row, and pairs
\* of rows that end with each row.
CsvPayloads ==
    {NoFile, Undecodable, ListOf(<< >>)} \cup {ListOf(<<r>>) : r \in TextRows}
        \cup {ListOf(<<EntryRow(Str(<<"b">>), Str(<<"x">>), Str(<<"x">>)), r>>) : r \in TextRows}
EntryPayloads ==
    {NotAList, ListOf(<< >>)} \cup {ListOf(<<r>>) : r \in JsonRows}
        \cup {ListOf(<<EntryRow(Str(<<"b">>), Str(<<"x">>), Str(<<"x">>)), r>>) : r \in JsonRows}

\* The "items" values sent: "a" is the title of one item, "b" of two, "c"
\* of none.
ItemRows ==
    {ItemRow(Str(<<"a">>), Str(<<"x">>), Absent, Absent, Given(FALSE)),
     ItemRow(Str(<<" ", "a">>), Str(<<"x">>), Absent, Str(<<"t">>), Given(FALSE)),
     ItemRow(Str(<<"a">>), Absent, Str(<<"y">>), Str(<<"t">>), Missing),
     ItemRow(Str(<<"b">>), Absent, Absent, Str(<<"t">>), Missing),
     ItemRow(Str(<<"c">>), Str(<<"x">>), Absent, Str(<<"t">>), Given(TRUE)),
     ItemRow(Str(<<" ">>), Str(<<"x">>), Absent, Absent, Missing),
     ItemRow(Absent, Absent, Absent, Absent, Missing),
     NonObject}
ItemPayloads ==
    {NotAList, ListOf(<< >>)} \cup {ListOf(<<r>>) : r \in ItemRows}
        \cup {ListOf(<<ItemRow(Str(<<"a">>), Str(<<"y">>), Absent, Str(<<"t">>), Missing), r>>) :
                 r \in ItemRows}

Importers == {"staff", "manager", "anon"}

\* The dictionary has the entry "a" with both glosses; the catalog has the
\* item "a" and two items titled "b", entered through the admin site.
ImportInit ==
    /\ submissions = << >>
    /\ items = <<DirectItem, DraftItem, DraftItem>>
    /\ reqs = [r \in 1..MaxReq |-> IdleReq]
    /\ clock = 1
    /\ entries = <<NewEntry(<<"a">>, <<"o">>, <<"o">>)>>
    /\ logs = << >>
    /\ events = << >>
    /\ jobs = << >>
    /\ cache = {}
    /\ last = NoExchange

\* At most MaxImports import requests are served in a run.
Imported == clock <= MaxImports /\ clock' = clock + 1

ImportNext ==
    \/ \E u \in Importers, p \in CsvPayloads :
          Imported /\ DictionaryImportCSVView_post(u, p)
    \/ \E u \in Importers, p \in EntryPayloads :
          Imported /\ DictionaryImportJSONView_post(u, p)
    \/ \E u \in Importers, p \in ItemPayloads :
          Imported /\ LibraryImportJSONView_post(u, p)

ImportSpec == ImportInit /\ [][ImportNext]_vars

\* ---- Claims on the import views ----

\* A step that served an import request.
ImportStep == clock' # clock /\ last'.op = "import"

\* The natural key of a row as sent, and whether it is missing or blank.
RowKey(row) == IF "lemma" \in DOMAIN row THEN row.lemma ELSE row.title
BlankKey(row) ==
    RowKey(row).kind = "absent" \/ (RowKey(row).kind = "str" /\ Strip(RowKey(row).text) = EmptyText)

\* C22: an import request of a staff user whose payload is a list (or a
\* decodable CSV) is answered 200 with the aggregate counts whatever the rows
\* hold: every row is counted, a row that cannot be imported is counted in
\* failed_rows and has its line in the job's log, and no row makes the
\* request end with an error.
C22_RowsNeverAbort ==
    [][(ImportStep /\ last'.user = "staff" /\ last'.payload.kind = "list")
       => /\ last'.status = 200
          /\ last'.total_rows = Len(last'.payload.rows)
          /\ last'.total_rows = last'.success_rows + last'.failed_rows
          /\ Len(jobs') = Len(jobs) + 1
          /\ LET log == jobs'[Len(jobs')].log
             IN  Cardinality({i \in DOMAIN log : log[i].key = EmptyText /\ log[i].row > 0})
                     = last'.failed_rows]_vars

\* C23: after a completed import total_rows is the number of rows sent,
\* failed_rows the number of rows whose lemma or title is missing or blank,
\* success_rows the rest, total_rows = success_rows + failed_rows, and the
\* ImportJob row holds the counts the response gives.
C23_CountsAddUp ==
    (last.op = "import" /\ last.status = 200)
    => LET rows == last.payload.rows
           blank == {i \in DOMAIN rows : BlankKey(rows[i])}
           job == jobs[last.job_id]
       IN  /\ last.total_rows = Len(rows)
           /\ last.failed_rows = Cardinality(blank)
           /\ last.success_rows = Len(rows) - Cardinality(blank)
           /\ last.total_rows = last.success_rows + last.failed_rows
           /\ job.total_rows = last.total_rows
           /\ job.success_rows = last.success_rows
           /\ job.failed_rows = last.failed_rows

\* An import of two rows completed, one row imported and one without a key.
C23_Witness ==
    /\ last.op = "import" /\ last.status = 200
    /\ Len(last.payload.rows) = 2
    /\ last.success_rows = 1 /\ last.failed_rows = 1
    /\ jobs[last.job_id].failed_rows = 1

\* The key a row is stored under.
StoredKey(row) == Strip(RowKey(row).text)

\* C24: import is an upsert by natural key: after an import request, for
\* every row with a non-blank lemma (dictionary) or title (library) exactly
\* one record with that key exists; it carries the values the last such row
\* supplies; and a record that existed is updated in place, so the table
\* grows only by the keys it did not have.
C24_UpsertByKey ==
    [][(ImportStep /\ last'.user = "staff" /\ last'.payload.kind = "list")
       => LET rows == last'.payload.rows
              keyed == {i \in DOMAIN rows : rows[i].object /\ RowKey(rows[i]).kind = "str"
                                              /\ ~BlankKey(rows[i])}
              final == {i \in keyed : \A j \in keyed :
                            j > i => StoredKey(rows[j]) # StoredKey(rows[i])}
          IN  IF last'.view = "library_json"
              THEN /\ \A i \in final :
                        LET recs == {n \in DOMAIN items' : items'[n].title = StoredKey(rows[i])}
                        IN  /\ Cardinality(recs) = 1
                            /\ \A n \in recs :
                                  /\ rows[i].description \notin {Absent, Str(EmptyText)}
                                        => items'[n].description = rows[i].description.text
                                  /\ rows[i].is_published.present
                                        => items'[n].is_published = rows[i].is_published.value
                   /\ Len(items') = Len(items)
                        + Cardinality({StoredKey(rows[i]) : i \in keyed}
                                          \ {items[n].title : n \in DOMAIN items})
              ELSE /\ \A i \in final :
                        LET recs == {n \in DOMAIN entries' : entries'[n].lemma = StoredKey(rows[i])}
                        IN  /\ Cardinality(recs) = 1
                            /\ \A n \in recs :
                                  /\ rows[i].gloss_ll \notin {Absent, Str(EmptyText)}
                                        => entries'[n].gloss_ll = rows[i].gloss_ll.text
                                  /\ rows[i].gloss_en \notin {Absent, Str(EmptyText)}
                                        => entries'[n].gloss_en = rows[i].gloss_en.text
                   /\ Len(entries') = Len(entries)
                        + Cardinality({StoredKey(rows[i]) : i \in keyed}
                                          \ {entries[n].lemma : n \in DOMAIN entries})]_vars

\* C29: an import request answered 400 (no file, undecodable CSV, a payload
\* that is no list) creates no ImportJob and changes no dictionary entry and
\* no library item, and every ImportJob that exists has a non-empty log and
\* counts that add up.
C29_NoJobOnError ==
    [][ImportStep
       => /\ last'.status = 400
              => jobs' = jobs /\ entries' = entries /\ items' = items
          /\ \A j \in DOMAIN jobs' :
                /\ jobs'[j].log # << >>
                /\ jobs'[j].total_rows = jobs'[j].success_rows + jobs'[j].failed_rows]_vars

\* C30: a dictionary import that repeats the payload of the import just
\* before it leaves every entry as it was and adds only an ImportJob, and
\* an import leaves a gloss of an existing entry as it was unless a row for
\* that lemma supplies a non-empty value for it.
C30_ImportIdempotent ==
    [][(ImportStep /\ last'.user = "staff" /\ last'.view # "library_json"
            /\ last'.payload.kind = "list")
       => /\ (last.op = "import" /\ last.user = "staff" /\ last.view = last'.view
                 /\ last.payload = last'.payload)
              => entries' = entries /\ Len(jobs') = Len(jobs) + 1
          /\ \A n \in DOMAIN entries :
                LET rows == last'.payload.rows
                    mine == {i \in DOMAIN rows : rows[i].object /\ RowKey(rows[i]).kind = "str"
                                                   /\ StoredKey(rows[i]) = entries[n].lemma}
                IN  /\ entries'[n].lemma = entries[n].lemma
                    /\ (\A i \in mine : rows[i].gloss_ll \in {Absent, Str(EmptyText)})
                          => entries'[n].gloss_ll = entries[n].gloss_ll
                    /\ (\A i \in mine : rows[i].gloss_en \in {Absent, Str(EmptyText)})
                          => entries'[n].gloss_en = entries[n].gloss_en]_vars

\* The row for lemma "a" with two empty glosses was imported twice through
\* the same view: two finished jobs of one imported row with the same log,
\* and the entry "a" still has the glosses it had.
C30_Witness ==
    /\ last.op = "import" /\ last.status = 200 /\ last.view = "dictionary_json"
    /\ last.payload = ListOf(<<EntryRow(Str(<<"a">>), Str(EmptyText), Str(EmptyText))>>)
    /\ Len(jobs) = 2 /\ jobs[1] = jobs[2] /\ jobs[1].success_rows = 1
    /\ entries = <<NewEntry(<<"a">>, <<"o">>, <<"o">>)>>

(***************************** QueryHealthSummary **************************)
\* views_query_health.py.  In the runs of this view `clock` is the time in
\* seconds; the view is one step (its reads, its cache.get and cache.set
\* happen at one instant).  A cache entry is what cache.set stored under a
\* key and when; Redis drops it `timeout` seconds later.
MaxTicks == 2     \* times the clock advances in one run
TickSeconds == 30 \* seconds the clock advances at a time
Day == 86400
TIMEOUT == 60

\* The SearchQueryLog columns the summary reads.
HealthLog(query, has_results, at) ==
    [source |-> "dictionary", query |-> query, has_results |-> has_results,
     created_at |-> at]

\* int(request.GET.get(name, default) or default), default on ValueError.
HealthParam(v, default) ==
    IF v.kind = "absent" \/ v.text = EmptyText THEN default
    ELSE IF IntOfText(v.text).ok THEN IntOfText(v.text).val ELSE default

HealthDays(v) == Max(1, HealthParam(v, 30))
HealthLimit(v) == Max(1, Min(HealthParam(v, 50), 200))

\* A key that leaves the limit out.
cache_key_DaysOnly(days, limit) == <<"qh:summary", days>>

\* f"qh:summary:{days}:{limit}"
cache_key(days, limit) == <<"qh:summary", days, limit>>

\* cache.get(key) at time now: the payload stored under the key less than
\* TIMEOUT seconds ago, if any.
CacheGet(key, now) == {e \in cache : e.key = key /\ now - e.set_at < TIMEOUT}

\* cache.set(key, payload, timeout=60) at time now.
CacheSet(key, payload, now) ==
    {e \in cache : e.key # key} \cup {[key |-> key, payload |-> payload, set_at |-> now]}

\* .values("query", "source").annotate(times=Count("id")) over the rows S.
Grouped(rows, S) ==
    {[query |-> rows[i].query, source |-> rows[i].source,
      times |-> Cardinality({j \in S : rows[j].query = rows[i].query
                                        /\ rows[j].source = rows[i].source})] : i \in S}

\* .order_by("-times")[:limit]: groups of equal times come in either order.
TopLists(rows, S, limit) ==
    {Page(ord, 0, limit) :
        ord \in Orderings(Grouped(rows, S),
                          {p \in Grouped(rows, S) \X Grouped(rows, S) : p[1].times > p[2].times})}

\* The payloads the view can compute from the rows at time now.
Summaries(days, limit, rows, now) ==
    LET qs == {i \in DOMAIN rows : rows[i].created_at >= now - days * Day}
        no_res == {i \in qs : ~rows[i].has_results}
    IN  {[window_days |-> days, total_searches |-> Cardinality(qs),
          no_result_searches |-> Cardinality(no_res),
          no_result_rate |-> IF qs # {} THEN <<Cardinality(no_res), Cardinality(qs)>>
                             ELSE <<0, 1>>,
          top_no_result_queries |-> missing, top_queries |-> top] :
            missing \in TopLists(rows, no_res, limit), top \in TopLists(rows, qs, limit)}

\* The request, the time it was served and the response.
HealthExchange(u, days, limit, code, payload) ==
    [op |-> "health", user |-> u, days |-> days, limit |-> limit, at |-> clock,
     status |-> code, payload |-> payload]

NoPayload == [window_days |-> 0]

QueryHealthSummary_get(u, days, limit) ==
    /\ UNCHANGED <<submissions, items, reqs, clock, entries, logs, events, jobs>>
    /\ IF Gate(IsManagerOrAdmin(u), u) # 0
       THEN /\ last' = HealthExchange(u, days, limit, Gate(IsManagerOrAdmin(u), u), NoPayload)
            /\ UNCHANGED cache
       ELSE LET key == cache_key(HealthDays(days), HealthLimit(limit))
                cached == CacheGet(key, clock)
            IN  IF cached # {}
                THEN /\ \E e \in cached : last' = HealthExchange(u, days, limit, 200, e.payload)
                     /\ UNCHANGED cache
                ELSE \E payload \in Summaries(HealthDays(days), HealthLimit(limit), logs, clock) :
                        /\ cache' = CacheSet(key, payload, clock)
                        /\ last' = HealthExchange(u, days, limit, 200, payload)

\* Time passes; Redis drops the entries whose timeout has run out.
Tick ==
    /\ clock < MaxTicks * TickSeconds
    /\ clock' = clock + TickSeconds
    /\ cache' = {e \in cache : clock' - e.set_at < TIMEOUT}
    /\ UNCHANGED <<submissions, items, reqs, entries, events, last, jobs>>

\* A search view logs a query when it is served
\* (SearchQueryLog.created_at is auto_now_add).
LogSearch(query, has_results) ==
    logs' = Append(logs, HealthLog(query, has_results, clock'))

\* The days and limit parameters sent: the defaults (30, 50), a days value
\* that falls back to 30 with a limit of 1, and a zero that is raised to one
\* day with a limit that is cut to 200.
HealthParams ==
    {<<Absent, Absent>>, <<Str(<<"x">>), Str(<<"1">>)>>,
     <<Str(<<"0">>), Str(<<"5", "0", "0">>)>>}

\* The searches logged during a run, at most one between two instants.
Logged == {<<(<<"b">>), FALSE>>, <<(<<"a">>), TRUE>>}

HealthUsers == {"manager", "editor"}

\* Three searches without results are in the log: "b" two days ago and "a"
\* twice as the run begins.
HealthInit ==
    /\ submissions = << >>
    /\ items = << >>
    /\ reqs = [r \in 1..MaxReq |-> IdleReq]
    /\ clock = 0
    /\ entries = << >>
    /\ logs = <<HealthLog(<<"b">>, FALSE, 0 - 2 * Day), HealthLog(<<"a">>, FALSE, 0),
               HealthLog(<<"a">>, FALSE, 0)>>
    /\ events = << >>
    /\ jobs = << >>
    /\ cache = {}
    /\ last = NoExchange

HealthNext ==
    \/ Tick /\ UNCHANGED logs
    \/ \E s \in Logged : Tick /\ LogSearch(s[1], s[2])
    \/ \E u \in HealthUsers, p \in HealthParams : QueryHealthSummary_get(u, p[1], p[2])

HealthSpec == HealthInit /\ [][HealthNext]_vars

\* ---- Claims on the query-health summary ----

\* A step that served a summary request.
HealthStep ==
    /\ last'.op = "health" /\ last'.status = 200
    /\ clock' = clock /\ logs' = logs
    /\ (last' # last \/ cache' # cache)

\* The rows the log held at time t: a prefix of the log that has every row
\* created before t and none created after it.
LogAt(n, t) ==
    /\ \A i \in 1..n : logs[i].created_at <= t
    /\ \A i \in (n + 1)..Len(logs) : logs[i].created_at >= t

\* C25: the response to a summary request for (days, limit) is a payload
\* computed for that pair from the log as it is at the request, or one
\* computed for that pair from the log as it was less than 60 seconds
\* before; a payload computed for another pair is never returned, and when
\* the cache writes a new entry the payload is computed at the request.
C25_FreshOrCached ==
    [][HealthStep
       => LET days == HealthDays(last'.days)
              limit == HealthLimit(last'.limit)
          IN  /\ \E k \in 0..MaxTicks, n \in 0..Len(logs) :
                    LET t == clock - k * TickSeconds
                    IN  /\ clock - t < TIMEOUT
                        /\ LogAt(n, t)
                        /\ last'.payload \in Summaries(days, limit, SubSeq(logs, 1, n), t)
              /\ cache' # cache
                    => last'.payload \in Summaries(days, limit, logs, clock)]_vars

\* A request was answered from an entry stored earlier although the log has
\* grown since: the payload is not one the log gives now.
C25_Witness ==
    /\ last.op = "health" /\ last.status = 200 /\ last.at = clock
    /\ \E e \in cache :
          /\ e.key = cache_key(HealthDays(last.days), HealthLimit(last.limit))
          /\ e.set_at < clock
          /\ e.payload = last.payload
    /\ last.payload \notin Summaries(HealthDays(last.days), HealthLimit(last.limit), logs, clock)

(***************************** events and their items **********************)
\* LibraryEvent.item is a foreign key with on_delete=CASCADE: deleting a
\* LibraryItem (LibraryItemAdmin's delete, item.delete()) deletes the events
\* that point at it.  Ids are not reused: the place of a deleted item holds
\* a row that no lookup finds (unpublished, and no import looks up the
\* empty title).
DeletedItem == NewItem(EmptyText, EmptyText, EmptyText, NULL, FALSE, NULL, NoId)

ItemExists(tbl, id) == id \in DOMAIN tbl /\ tbl[id] # DeletedItem

\* The events that do not point at item id.
NotOf(id, evs) == SelectSeq(evs, LAMBDA e : e.item # id)

\* A delete that leaves the events of the item in place.
DeleteItem_NoCascade(id) ==
    /\ ItemExists(items, id)
    /\ items' = [items EXCEPT ![id] = DeletedItem]
    /\ UNCHANGED <<submissions, reqs, clock, entries, logs, events, last, imports>>

DeleteItem(id) ==
    /\ ItemExists(items, id)
    /\ items' = [items EXCEPT ![id] = DeletedItem]
    /\ events' = NotOf(id, events)
    /\ UNCHANGED <<submissions, reqs, clock, entries, logs, last, imports>>

\* The requests of the runs with events: tracks of item 1 and item 2, an
\* import that publishes item "b" and one that rewrites and unpublishes item
\* "a", a search, and an approve and a reject of submission 1.
EventImports ==
    {ListOf(<<ItemRow(Str(<<"b">>), Absent, Absent, Str(<<"t">>), Given(TRUE))>>),
     ListOf(<<ItemRow(Str(<<"a">>), Str(<<"x">>), Absent, Str(<<"t">>), Given(FALSE))>>)}

EventInit ==
    /\ submissions = <<NewSubmission("regular", <<"c">>, EmptyText, EmptyText)>>
    /\ items = <<DirectItem, DraftItem>>
    /\ reqs = [r \in 1..MaxReq |-> IdleReq]
    /\ clock = 1
    /\ entries = << >>
    /\ logs = << >>
    /\ events = << >>
    /\ jobs = << >>
    /\ cache = {}
    /\ last = NoExchange

EventNext ==
    \/ \E i \in {JInt(1), JInt(2)}, t \in {Str(EVENT_VIEW), Str(EVENT_DOWNLOAD)} :
          Len(events) <= MaxEvents /\ LibraryTrack_post("regular", i, t)
    \/ \E id \in 1..2 : DeleteItem(id)
    \/ \E p \in EventImports :
          jobs = << >> /\ LibraryImportJSONView_post("staff", p) /\ UNCHANGED clock
    \/ LibrarySearch_get("regular", Absent, Absent, Absent, Absent) /\ UNCHANGED clock
    \/ ApproveSubmission_post_get(1, "manager", 1)
    \/ ApproveSubmission_post_write(1)
    \/ RejectSubmission_post_get(1, "manager", 1, Absent)
    \/ RejectSubmission_post_save(1)

EventSpec == EventInit /\ [][EventNext]_vars

\* ---- Claims on events ----

\* C21: no track, approve, reject, import or search changes the item or the
\* event_type of an existing LibraryEvent; an event ceases to exist only
\* when its item is deleted, and then every event of that item goes with it;
\* so every event points at an item that exists.
C21_EventsImmutable ==
    [][/\ \/ events' = events
          \/ \E e \in {events'[i] : i \in DOMAIN events'} : events' = Append(events, e)
          \/ \E id \in DOMAIN items :
                /\ ItemExists(items, id) /\ ~ItemExists(items', id)
                /\ events' = NotOf(id, events)
       /\ (\A id \in DOMAIN items : ItemExists(items, id) => ItemExists(items', id))
             => \A i \in DOMAIN events : i \in DOMAIN events' /\ events'[i] = events[i]
       /\ \A i \in DOMAIN events' : ItemExists(items', events'[i].item)]_vars

\* Item 2 was published by an import, tracked, and deleted; its event went
\* with it and the event of item 1 is still there.
C21_Witness ==
    /\ ~ItemExists(items, 2) /\ ItemExists(items, 1)
    /\ last.op = "track" /\ last.status = 201 /\ last.item_id = JInt(2)
    /\ jobs # << >>
    /\ events = <<NewEvent("regular", 1, EVENT_VIEW)>>

====
